---- MODULE Spec2Model ----
(***************************************************************************)
(* A model of VCONNPeer (src/src/peer.ts): the chunking ("transit")        *)
(* sub-protocol of sendChunkedMessage / handle, the connect() lifecycle    *)
(* with its retry timers, and the positional caller of createManager.      *)
(*                                                                         *)
(* Text is a sequence of one-character strings, so that length, slicing,   *)
(* split(".") and JSON parsing are computed character by character.        *)
(***************************************************************************)
EXTENDS Integers, Sequences, FiniteSets, TLC

(***************************************************************************)
(* Bounds of the model.                                                    *)
(***************************************************************************)
\* maxMessageLength ranges over -1 and 1..MaxMML
MaxMML == 8
\* safeCeiling ranges over 0..MaxCeiling
MaxCeiling == 1
\* calls of connect() on one peer
MaxConnects == 2
\* the option maxReconnectAttempts ranges over 0..MaxAttempts
MaxAttempts == 3
\* calls made through the object createManager returns
MaxCalls == 2
\* frames delivered to handle() in the dispatch model
MaxDeliveries == 3
\* calls of editFunction
MaxEdits == 1

(***************************************************************************)
(* Text helpers.                                                           *)
(***************************************************************************)
DigitChars == <<"0", "1", "2", "3", "4", "5", "6", "7", "8", "9">>

IsDigit(c) == \E d \in 1..10 : DigitChars[d] = c

DigitValue(c) == (CHOOSE d \in 1..10 : DigitChars[d] = c) - 1

IsDigits(s) == Len(s) >= 1 /\ \A i \in 1..Len(s) : IsDigit(s[i])

\* Number.prototype.toString / template-literal conversion of an integer
RECURSIVE NatToString(_)
NatToString(n) ==
    IF n < 10 THEN <<DigitChars[n + 1]>>
    ELSE NatToString(n \div 10) \o <<DigitChars[(n % 10) + 1]>>

IntToString(n) == IF n < 0 THEN <<"-">> \o NatToString(-n) ELSE NatToString(n)

\* String.prototype.slice(start) for a start that may be negative
SliceFrom(s, start) ==
    LET from == IF start < 0 THEN (IF Len(s) + start < 0 THEN 0 ELSE Len(s) + start)
                ELSE (IF start > Len(s) THEN Len(s) ELSE start)
    IN SubSeq(s, from + 1, Len(s))

\* String.prototype.slice(start, end) for 0 <= start <= end
Slice(s, start, end) ==
    SubSeq(s, start + 1, IF end > Len(s) THEN Len(s) ELSE end)

\* index of the first c in s at or after position from, 0 if none
FirstIndex(s, c, from) ==
    IF \E i \in from..Len(s) : s[i] = c
    THEN CHOOSE i \in from..Len(s) : s[i] = c /\ \A j \in from..(i - 1) : s[j] # c
    ELSE 0

\* String.prototype.split(".")
RECURSIVE Split(_)
Split(s) ==
    LET p == FirstIndex(s, ".", 1)
    IN IF p = 0 THEN <<s>>
       ELSE <<SubSeq(s, 1, p - 1)>> \o Split(SubSeq(s, p + 1, Len(s)))

\* Array.prototype.join(".")
RECURSIVE Join(_)
Join(parts) ==
    IF Len(parts) = 0 THEN <<>>
    ELSE IF Len(parts) = 1 THEN parts[1]
    ELSE parts[1] \o <<".">> \o Join(Tail(parts))

RECURSIVE DigitsToNat(_)
DigitsToNat(s) ==
    IF Len(s) = 0 THEN 0
    ELSE 10 * DigitsToNat(SubSeq(s, 1, Len(s) - 1)) + DigitValue(s[Len(s)])

\* length of the longest prefix of s made of digits
RECURSIVE DigitPrefixLen(_)
DigitPrefixLen(s) ==
    IF Len(s) = 0 \/ ~IsDigit(s[1]) THEN 0 ELSE 1 + DigitPrefixLen(Tail(s))

\* parseInt(s): an optional sign, then the longest run of digits; NaN if none
ParseInt(s) ==
    LET signed == Len(s) > 0 /\ s[1] \in {"-", "+"}
        body   == IF signed THEN Tail(s) ELSE s
        n      == DigitPrefixLen(body)
        mag    == DigitsToNat(SubSeq(body, 1, n))
    IN IF n = 0 THEN [nan |-> TRUE, val |-> 0]
       ELSE [nan |-> FALSE, val |-> IF signed /\ s[1] = "-" THEN -mag ELSE mag]

(***************************************************************************)
(* JSON values and JSON.stringify / JSON.parse over the alphabet of the    *)
(* model: digits, letters, and the marks  - . " : { }  .  The alphabet has *)
(* no comma, bracket, backslash, exponent letter or white space, so the    *)
(* grammar below is the whole of JSON over it: null, numbers, strings      *)
(* without escapes, the empty object and objects of one member.            *)
(***************************************************************************)
Null == [t |-> "null"]

Num(neg, int, frac) == [t |-> "num", neg |-> neg, int |-> int, frac |-> frac]

Str(s) == [t |-> "str", s |-> s]

EmptyObj == [t |-> "emptyobj"]

Obj(k, v) == [t |-> "obj", k |-> k, v |-> v]

\* the SyntaxError JSON.parse throws
ParseError == [t |-> "error"]

\* the value of a member that is absent
Undefined == [t |-> "undefined"]

RECURSIVE JsonStringify(_)
JsonStringify(v) ==
    CASE v.t = "null" -> <<"n", "u", "l", "l">>
      [] v.t = "num" ->
            \* -0 is written "0"
            (IF v.neg /\ ~(v.int = <<"0">> /\ v.frac = <<>>) THEN <<"-">> ELSE <<>>)
            \o v.int \o (IF v.frac = <<>> THEN <<>> ELSE <<".">> \o v.frac)
      [] v.t = "str" -> <<"\"">> \o v.s \o <<"\"">>
      [] v.t = "emptyobj" -> <<"{", "}">>
      [] v.t = "obj" ->
            <<"{", "\"">> \o v.k \o <<"\"", ":">> \o JsonStringify(v.v) \o <<"}">>

RECURSIVE StripTrailingZeros(_)
StripTrailingZeros(s) ==
    IF Len(s) > 0 /\ s[Len(s)] = "0"
    THEN StripTrailingZeros(SubSeq(s, 1, Len(s) - 1))
    ELSE s

IsIntText(s) == IsDigits(s) /\ (Len(s) = 1 \/ s[1] # "0")

ParseNumber(s) ==
    LET neg  == Len(s) > 0 /\ s[1] = "-"
        body == IF neg THEN Tail(s) ELSE s
        p    == FirstIndex(body, ".", 1)
        int  == IF p = 0 THEN body ELSE SubSeq(body, 1, p - 1)
        frac == IF p = 0 THEN <<>> ELSE SubSeq(body, p + 1, Len(body))
    IN IF IsIntText(int) /\ (p = 0 \/ IsDigits(frac))
       THEN Num(neg, int, StripTrailingZeros(frac))
       ELSE ParseError

IsStringText(s) ==
    /\ Len(s) >= 2
    /\ s[1] = "\""
    /\ s[Len(s)] = "\""
    /\ \A i \in 2..(Len(s) - 1) : s[i] # "\""

RECURSIVE JsonParse(_)
JsonParse(s) ==
    IF s = <<"n", "u", "l", "l">> THEN Null
    ELSE IF IsStringText(s) THEN Str(SubSeq(s, 2, Len(s) - 1))
    ELSE IF Len(s) >= 2 /\ s[1] = "{" /\ s[Len(s)] = "}"
    THEN LET inner == SubSeq(s, 2, Len(s) - 1)
             q     == FirstIndex(inner, "\"", 2)
         IN IF inner = <<>> THEN EmptyObj
            ELSE IF inner[1] = "\"" /\ q # 0 /\ q < Len(inner) /\ inner[q + 1] = ":"
            THEN LET val == JsonParse(SubSeq(inner, q + 2, Len(inner)))
                 IN IF val = ParseError THEN ParseError
                    ELSE Obj(SubSeq(inner, 2, q - 1), val)
            ELSE ParseError
    ELSE ParseNumber(s)

\* JavaScript truthiness of a parsed JSON value: !v is true of null, 0 and ""
Falsy(v) ==
    \/ v.t = "null"
    \/ v.t = "num" /\ v.frac = <<>> /\ v.int = <<"0">>
    \/ v.t = "str" /\ v.s = <<>>

(***************************************************************************)
(* The peers of the transit model: a sending peer whose calls go through   *)
(* sendChunkedMessage on socket 1, and a receiving peer whose handle() is  *)
(* fed the frames of socket 1 in order and frames of a second socket.      *)
(***************************************************************************)
\* methodCollection of the peer: "strict" carries a schema, "open", "close"
\* and "error" are the default functions the peer calls itself
Registered == {"echo", "strict", "error", "open", "close"}

HasSchema == {"strict"}

\* the schema of "strict": z.object(...), which rejects what is no object
SchemaParses(input) == input.t \in {"obj", "emptyobj"}

SchemaAccepts(method, input) == method \in HasSchema => SchemaParses(input)

\* the handler the constructor registers under every name
FirstHandler == 0

\* the table the constructor is given: name -> {handler, schema}
InitialMethods ==
    [name \in Registered |-> [handler |-> FirstHandler, schema |-> name \in HasSchema]]

\* what becomes of a handler's promise and of the "error" hook's promise:
\* both resolve, the handler's rejects with an Error, or both reject
Failures == {"none", "handler", "both"}

\* methods the sending peer calls
CallMethods == {"echo", "strict"}

\* inputs the sending peer calls with: {"a":1.5}, "a.-1.b" and 10.5
Inputs ==
    { Obj(<<"a">>, Num(FALSE, <<"1">>, <<"5">>)),
      Str(<<"a", ".", "-", "1", ".", "b">>),
      Num(FALSE, <<"1", "0">>, <<"5">>) }

\* what generateTransitId can return: "V-" and base-36 characters
TransitIds == { <<"V", "-", "a">>, <<"V", "-", "7", "k">> }

\* frames on the wire
WholeFrame(method, inputText) ==
    [kind |-> "whole", method |-> method, input |-> inputText]

TransitInit(method, transitId) ==
    [kind |-> "init", method |-> method, transit |-> transitId]

Raw(text) == [kind |-> "raw", text |-> text]

ChunkFrame(transitId, chunkIndex, chunk) ==
    Raw(transitId \o <<".">> \o IntToString(chunkIndex) \o <<".">> \o chunk)

\* what the second socket delivers, in order: a chunk of a transit never
\* initiated, then a transfer of {} to an unregistered method; or a transfer
\* to "echo" whose text is no JSON, then a chunk of the finished transit; or
\* a transfer of {"a":1.5} to "strict"
ForeignId == <<"V", "-", "z">>

ForeignObject == Obj(<<"a">>, Num(FALSE, <<"1">>, <<"5">>))

ForeignTransfer ==
    << TransitInit("strict", ForeignId),
       ChunkFrame(ForeignId, 0, SubSeq(JsonStringify(ForeignObject), 1, 5)),
       ChunkFrame(ForeignId, -1, SubSeq(JsonStringify(ForeignObject), 6, 9)) >>

ForeignScripts ==
    { << ChunkFrame(ForeignId, 0, <<"1">>),
         TransitInit("nope", ForeignId),
         ChunkFrame(ForeignId, -1, <<"{", "}">>) >>,
      << TransitInit("echo", ForeignId),
         ChunkFrame(ForeignId, 0, <<"{", "\"">>),
         ChunkFrame(ForeignId, -1, <<".", "}">>),
         ChunkFrame(ForeignId, 1, <<"1">>) >>,
      ForeignTransfer }

\* the chunks of a transfer of {"a":1.5} to "echo" with indices 0, 1, 2 and 10
ReassemblyChunks ==
    << ChunkFrame(ForeignId, 0, SubSeq(JsonStringify(ForeignObject), 1, 2)),
       ChunkFrame(ForeignId, 1, SubSeq(JsonStringify(ForeignObject), 3, 4)),
       ChunkFrame(ForeignId, 2, SubSeq(JsonStringify(ForeignObject), 5, 6)),
       ChunkFrame(ForeignId, 10, SubSeq(JsonStringify(ForeignObject), 7, 8)) >>

\* that transfer with its non-terminal chunks arriving in every order
PermutedScripts ==
    { <<TransitInit("echo", ForeignId)>>
        \o [i \in DOMAIN ReassemblyChunks |-> ReassemblyChunks[p[i]]]
        \o <<ChunkFrame(ForeignId, -1, SubSeq(JsonStringify(ForeignObject), 9, 9))>> :
      p \in { q \in [DOMAIN ReassemblyChunks -> DOMAIN ReassemblyChunks] :
                \A i, j \in DOMAIN q : q[i] = q[j] => i = j } }

\* a transfer of 15 to "echo" in two chunks, with two frames between them
\* that name the transit: one with a single separator, one whose index is x
MalformedScript ==
    << TransitInit("echo", ForeignId),
       ChunkFrame(ForeignId, 0, <<"1">>),
       Raw(ForeignId \o <<".", "7">>),
       Raw(ForeignId \o <<".", "x", ".", "9">>),
       ChunkFrame(ForeignId, -1, <<"5">>) >>

ReassemblyScripts == PermutedScripts \cup {MalformedScript}

\* one call delivered twice: as the whole frame {method, input}, then as a
\* transit-init frame and two chunks
PathScript(method, input) ==
    LET inputString == JsonStringify(input)
    IN << WholeFrame(method, inputString),
          TransitInit(method, ForeignId),
          ChunkFrame(ForeignId, 0, SubSeq(inputString, 1, 1)),
          ChunkFrame(ForeignId, -1, SubSeq(inputString, 2, Len(inputString))) >>

\* method names of inbound calls: registered ones, the hooks among them, an
\* unregistered one and the empty name; inputs: 0, "", null, {}, "a" and
\* {"a":1.5}
PathScripts ==
    { PathScript(method, input) :
        method \in {"echo", "strict", "open", "error", "nope", ""},
        input \in { Num(FALSE, <<"0">>, <<>>), Str(<<>>), Null, EmptyObj,
                    Str(<<"a">>), ForeignObject } }

MaxInputLen ==
    CHOOSE n \in 0..64 :
        /\ \E v \in Inputs : Len(JsonStringify(v)) = n
        /\ \A v \in Inputs : Len(JsonStringify(v)) <= n

\* iterations of calculateChunkLimits the model follows before it records
\* that the loop is not going to exit; a loop that exits does so within
\* MaxInputLen iterations, each of which removes a character or is the last
MaxIter == MaxInputLen + 1

VARIABLES
    maxMessageLength,  \* sending peer: this.maxMessageLength
    safeCeiling,       \* sending peer: this.safeCeiling
    sendPc,            \* position of the sending peer in sendChunkedMessage
    sMethod,           \* sendChunkedMessage: method
    sInput,            \* sendChunkedMessage: input
    transitId,         \* sendChunkedMessage: transitId
    remainingString,   \* calculateChunkLimits: remainingString
    chunkIndex,        \* calculateChunkLimits: chunkIndex
    chunkLimits,       \* calculateChunkLimits: chunkLimits
    wire,              \* frames passed to socket.send on socket 1, in order
    rcvPos,            \* frames of wire the receiving peer has handled
    foreign,           \* the frames the second socket delivers, in order
    methodCollection,  \* receiving peer: this.methodCollection
    foreignUsed,       \* frames of the second socket handled
    transitStorage,    \* receiving peer: this.transitStorage
    invoked,           \* handler invocations of the receiving peer, in order
    outbox,            \* frames the receiving peer's handlers sent
    threw,             \* handle() threw to its caller
    reassembled,       \* the strings handleTransitChunk reassembled, in order
    lastFrame,         \* the frame and socket of the last handle() call, and
                       \* whether its transit id had a buffer when it arrived
    sendLog,           \* the calls of sendChunkedMessage so far, in order
    inFlight           \* transit ids initiated and not yet sent a terminal chunk

VARIABLES
    socket,                \* this.socket: a socket id, or NoSocket for null
    socks,                 \* the sockets created so far, by id
    timers,                \* pending setTimeout callbacks of onclose
    promise,               \* per connect() call: the state of its promise
    reconnect,             \* option reconnect of the connect() calls
    maxReconnectAttempts,  \* option maxReconnectAttempts
    uncaught,              \* an event handler of the peer threw
    superseded,            \* timers that were pending when connect() was called
    handshakeFailed,       \* some socket closed without having opened
    lastClose              \* the close event handled last, until a socket is
                           \* created or opens: what its handlers called

VARIABLES
    calls,       \* the calls made through createManager and their promises
    listeners,   \* per socket: the "message" listeners added, in order
    inboundLog   \* the frames the remote peer has sent back, in order

callVars == <<calls, listeners, inboundLog>>

VARIABLES
    deliveries,  \* frames handed to handle() by the dispatch model
    editLog      \* the calls of editFunction so far, in order

dispatchVars == <<deliveries, editLog>>

VARIABLES
    served,    \* the last call of VCONNServer.handleRequest and its outcome
    returned   \* the last call of a function of getClient() and its outcome

httpVars == <<served, returned>>

connVars ==
    <<socket, socks, timers, promise, reconnect, maxReconnectAttempts, uncaught,
      superseded, handshakeFailed, lastClose>>

transitVars ==
    <<maxMessageLength, safeCeiling, sendPc, sMethod, sInput, transitId,
      remainingString, chunkIndex, chunkLimits, wire, rcvPos, foreign, foreignUsed,
      methodCollection, transitStorage, invoked, outbox, threw, reassembled, lastFrame, sendLog,
      inFlight>>

NoFrame == [frame |-> Raw(<<>>), socket |-> 0, known |-> FALSE]

NoInput == Null

(***************************************************************************)
(* The receiving peer: handle() and what it calls.  A receiver state is    *)
(* the record [storage, invoked, outbox, threw, reassembled, methods].     *)
(***************************************************************************)
ResponseFrame(dataText) == [kind |-> "data", data |-> dataText]

\* sendError(socket, message): the frame {error: message}
ErrorFrame(message) == [kind |-> "error", error |-> message]

\* sendResponse(socket, data): one frame {data} on that sock
sendResponse(st, sock, data) ==
    [st EXCEPT !.outbox =
        Append(@, [socket |-> sock, frame |-> ResponseFrame(JsonStringify(data))])]

Invocation(method, input, sock) ==
    [method |-> method, input |-> input, socket |-> sock]

\* the input the dispatcher gives the "error" hook: {error: error.message}
ErrorHookInput == Obj(<<"e", "r", "r", "o", "r">>, Str(<<"f", "a", "i", "l">>))

\* an invocation as the model logs it: the handler function called, whether
\* the dispatcher called it as the "error" hook, whether its promise rejected
Ran(method, input, sock, handler, hook, rejected) ==
    Invocation(method, input, sock)
        @@ [handler |-> handler, hook |-> hook, rejected |-> rejected]

\* a catch that calls the hook again when the hook's own promise rejected
OnHandlerRejected_Retry(st, sock, fail) ==
    LET hook == Ran("error", ErrorHookInput, sock, st.methods["error"].handler,
                    TRUE, fail = "both")
    IN IF "error" \notin DOMAIN st.methods THEN st
       ELSE [st EXCEPT !.invoked =
                IF fail = "both" THEN @ \o <<hook, hook>> ELSE Append(@, hook)]

\* the dispatcher's catch of a handler's rejection: the "error" hook, if
\* registered, is called with {error: error.message}; its own rejection is
\* caught and logged
OnHandlerRejected(st, sock, fail) ==
    IF "error" \in DOMAIN st.methods
    THEN [st EXCEPT !.invoked =
            Append(@, Ran("error", ErrorHookInput, sock,
                          st.methods["error"].handler, TRUE, fail = "both"))]
    ELSE st

\* a dispatcher that answers a call of an unknown method with an error frame
OnUnknownMethod_Replies(st, methodName, sock) ==
    [st EXCEPT !.outbox =
        Append(@, [socket |-> sock, frame |-> ErrorFrame(<<"n", "o">>)])]

\* the return taken when the method table has no entry for the name
OnUnknownMethod(st, methodName, sock) == st

\* the catch of the ZodError method.schema.parse threw
OnValidationFailure(st, methodName, sock) == st

\* a registered handler runs: it answers with sendResponse, or its promise
\* rejects (fail) and the dispatcher's catch invokes the "error" hook
InvokeHandler(st, method, input, sock, fail) ==
    LET called == [st EXCEPT !.invoked =
                     Append(@, Ran(method, input, sock, st.methods[method].handler,
                                   FALSE, fail # "none"))]
    IN IF fail = "none" THEN sendResponse(called, sock, input)
       ELSE OnHandlerRejected(called, sock, fail)

\* a dispatcher that never runs the schema
Validates_Skip(method, input) == TRUE

\* method.schema ? method.schema.parse(input) : input  does not throw
Validates(method, input) == method.schema => SchemaParses(input)

processCompleteMessage(st, methodName, input, sock, fail) ==
    IF methodName \notin DOMAIN st.methods THEN OnUnknownMethod(st, methodName, sock)
    ELSE IF ~Validates(st.methods[methodName], input)
    THEN OnValidationFailure(st, methodName, sock)
    ELSE InvokeHandler(st, methodName, input, sock, fail)

EmptyChunks == [i \in {} |-> <<>>]

\* an initiation that starts from an empty storage
handleTransitInitiation_Reset(st, jsonData) ==
    [st EXCEPT !.storage =
        [id \in {jsonData.transit} |->
            [method |-> jsonData.method, chunks |-> EmptyChunks, nan |-> <<>>]]]

handleTransitInitiation(st, jsonData) ==
    [st EXCEPT !.storage =
        [id \in DOMAIN st.storage \cup {jsonData.transit} |->
            IF id = jsonData.transit
            THEN [method |-> jsonData.method, chunks |-> EmptyChunks, nan |-> <<>>]
            ELSE st.storage[id]]]

\* transitData.chunks[chunkIndex] = chunkData; a NaN index is the key "NaN"
StoreChunk(transitData, index, chunkData) ==
    IF index.nan THEN [transitData EXCEPT !.nan = <<chunkData>>]
    ELSE [transitData EXCEPT !.chunks =
            [i \in DOMAIN transitData.chunks \cup {index.val} |->
                IF i = index.val THEN chunkData ELSE transitData.chunks[i]]]

\* a < b as strings of the characters - and 0..9
RECURSIVE TextBefore(_, _)
TextBefore(a, b) ==
    IF Len(a) = 0 THEN Len(b) > 0
    ELSE IF Len(b) = 0 THEN FALSE
    ELSE IF a[1] = b[1] THEN TextBefore(Tail(a), Tail(b))
    ELSE IF a[1] = "-" THEN TRUE
    ELSE IF b[1] = "-" THEN FALSE
    ELSE DigitValue(a[1]) < DigitValue(b[1])

\* a sort without comparator: the order of the indices as strings
RECURSIVE SortedSeq_AsText(_)
SortedSeq_AsText(S) ==
    IF S = {} THEN <<>>
    ELSE LET m == CHOOSE x \in S :
                    \A y \in S \ {x} : TextBefore(IntToString(x), IntToString(y))
         IN <<m>> \o SortedSeq_AsText(S \ {m})

RECURSIVE SortedSeq(_)
SortedSeq(S) ==
    IF S = {} THEN <<>>
    ELSE LET m == CHOOSE x \in S : \A y \in S : x <= y
         IN <<m>> \o SortedSeq(S \ {m})

RECURSIVE ConcatChunks(_, _)
ConcatChunks(chunks, indices) ==
    IF Len(indices) = 0 THEN <<>>
    ELSE chunks[indices[1]] \o ConcatChunks(chunks, Tail(indices))

\* Object.keys(chunks).map(Number).filter(i => i !== -1).sort((a, b) => a - b)
\* and the concatenation loop.  With the key "NaN" present the comparator is
\* inconsistent and the place of that chunk among the others is the engine's
\* choice: nanAt of them precede it.
Reassemble(transitData, nanAt) ==
    LET chunkIndices == SortedSeq(DOMAIN transitData.chunks \ {-1})
        n  == Len(chunkIndices)
        at == IF nanAt > n THEN n ELSE nanAt
    IN (IF transitData.nan = <<>>
        THEN ConcatChunks(transitData.chunks, chunkIndices)
        ELSE ConcatChunks(transitData.chunks, SubSeq(chunkIndices, 1, at))
               \o transitData.nan[1]
               \o ConcatChunks(transitData.chunks, SubSeq(chunkIndices, at + 1, n)))
       \o transitData.chunks[-1]

DeleteTransit(storage, id) == [k \in DOMAIN storage \ {id} |-> storage[k]]

\* a reassembler that deletes the buffer only when the text parsed
CleanUp_OnSuccessOnly(st, id, parsed) ==
    IF parsed THEN [st EXCEPT !.storage = DeleteTransit(@, id)] ELSE st

\* this.transitStorage.delete(transitId), in the try after JSON.parse
\* (parsed) and in the catch (not parsed)
CleanUp(st, id, parsed) == [st EXCEPT !.storage = DeleteTransit(@, id)]

\* a reassembler that opens a buffer for a chunk of an unknown transit
OnUnknownTransit_Buffers(st, id, index, chunkData) ==
    [st EXCEPT !.storage =
        [k \in DOMAIN st.storage \cup {id} |->
            IF k = id
            THEN StoreChunk([method |-> <<>>, chunks |-> EmptyChunks, nan |-> <<>>],
                            index, chunkData)
            ELSE st.storage[k]]]

\* the return taken when transitStorage has no entry for the id
OnUnknownTransit(st, id, index, chunkData) == st

handleTransitChunk(st, rawData, sock, fail, nanAt) ==
    LET parts == Split(rawData)
    IN IF Len(parts) < 3 THEN st
       ELSE
       LET id         == parts[1]
           index      == ParseInt(parts[2])
           chunkData  == Join(SubSeq(parts, 3, Len(parts)))
       IN IF id \notin DOMAIN st.storage
          THEN OnUnknownTransit(st, id, index, chunkData)
          ELSE
          LET transitData == StoreChunk(st.storage[id], index, chunkData)
              stored == [st EXCEPT !.storage[id] = transitData]
          IN IF index.nan \/ index.val # -1 THEN stored
             ELSE
             LET completeInputString == Reassemble(transitData, nanAt)
                 completeInput == JsonParse(completeInputString)
                 noted == [stored EXCEPT !.reassembled =
                             Append(@, [id |-> id, text |-> completeInputString])]
             IN IF completeInput = ParseError THEN CleanUp(noted, id, FALSE)
                ELSE processCompleteMessage(CleanUp(noted, id, TRUE),
                        transitData.method, completeInput, sock, fail)

\* handle({data, socket}); frame stands for params.data.  A frame of kind
\* "whole" or "init" is the text JSON.stringify made of that object, and
\* JSON.parse gives the object back with the input parsed from its text.
handle(st, frame, sock, fail, nanAt) ==
    IF frame.kind = "raw"
    THEN LET jsonData == JsonParse(frame.text)
         IN IF jsonData = ParseError
            THEN IF \E i \in 1..Len(frame.text) : frame.text[i] = "."
                 THEN handleTransitChunk(st, frame.text, sock, fail, nanAt)
                 ELSE st
            \* jsonData.method of null is a TypeError, outside every try
            ELSE IF jsonData = Null THEN [st EXCEPT !.threw = TRUE]
            \* a value of the alphabet has at most one member: no method, or
            \* a method with neither transit nor input
            ELSE st
    \* a response frame {data} or {error, details} has no method
    ELSE IF frame.kind \in {"data", "error"} THEN st
    ELSE IF frame.method = "" THEN st
    ELSE IF frame.kind = "init" THEN handleTransitInitiation(st, frame)
    ELSE LET input == JsonParse(frame.input)
         IN IF Falsy(input) THEN st
            ELSE processCompleteMessage(st, frame.method, input, sock, fail)

(***************************************************************************)
(* The sending peer: sendChunkedMessage, with the loop of                  *)
(* calculateChunkLimits taken one iteration at a time.                     *)
(***************************************************************************)
EmptyStorage == [id \in {} |-> [method |-> "", chunks |-> EmptyChunks, nan |-> <<>>]]

InitTransit ==
    /\ maxMessageLength \in {-1} \cup (1..MaxMML)
    /\ safeCeiling \in 0..MaxCeiling
    /\ sendPc = "idle"
    /\ sMethod = ""
    /\ sInput = NoInput
    /\ transitId = <<>>
    /\ remainingString = <<>>
    /\ chunkIndex = 0
    /\ chunkLimits = <<>>
    /\ wire = <<>>
    /\ rcvPos = 0
    /\ foreign \in ForeignScripts
    /\ methodCollection = InitialMethods
    /\ foreignUsed = 0
    /\ transitStorage = EmptyStorage
    /\ invoked = <<>>
    /\ outbox = <<>>
    /\ threw = FALSE
    /\ reassembled = <<>>
    /\ lastFrame = NoFrame
    /\ sendLog = <<>>
    /\ inFlight = {}

receiverVars ==
    <<rcvPos, foreignUsed, transitStorage, invoked, outbox, threw, reassembled,
      lastFrame, inFlight>>

configVars == <<maxMessageLength, safeCeiling, foreign, methodCollection>>

\* a test that chunks an input of exactly maxMessageLength characters
NoChunkingNeeded_Strict(inputString) ==
    maxMessageLength = -1 \/ Len(inputString) < maxMessageLength

\* the test of sendChunkedMessage that sends the input as one frame
NoChunkingNeeded(inputString) ==
    maxMessageLength = -1 \/ Len(inputString) <= maxMessageLength

\* sendChunkedMessage up to the call of calculateChunkLimits
SendChunkedMessage(method, input, id) ==
    /\ sendPc = "idle"
    /\ sendLog = <<>>
    /\ LET inputString == JsonStringify(input)
       IN IF NoChunkingNeeded(inputString)
          THEN /\ wire' = Append(wire, WholeFrame(method, inputString))
               /\ sendLog' = Append(sendLog,
                     [method |-> method, input |-> input, chunked |-> FALSE])
               /\ UNCHANGED <<sendPc, sMethod, sInput, transitId, remainingString,
                              chunkIndex, chunkLimits>>
          ELSE /\ wire' = Append(wire, TransitInit(method, id))
               /\ sendLog' = Append(sendLog,
                     [method |-> method, input |-> input, chunked |-> TRUE])
               /\ sendPc' = "calc"
               /\ sMethod' = method
               /\ sInput' = input
               /\ transitId' = id
               /\ remainingString' = inputString
               /\ chunkIndex' = 0
               /\ chunkLimits' = <<>>
    /\ UNCHANGED configVars
    /\ UNCHANGED receiverVars
    /\ UNCHANGED connVars
    /\ UNCHANGED callVars
    /\ UNCHANGED dispatchVars
    /\ UNCHANGED httpVars

\* `${transitId}.${chunkIndexStr}.`.length
BaseOverhead(id, index) == Len(id \o <<".">> \o IntToString(index) \o <<".">>)

MaxChunkSize(id, index) == maxMessageLength - BaseOverhead(id, index) - safeCeiling

\* one iteration of the while loop of calculateChunkLimits
CalculateChunkLimitsStep ==
    /\ sendPc = "calc"
    /\ chunkIndex < MaxIter
    /\ LET maxChunkSize == MaxChunkSize(transitId, chunkIndex)
       IN IF Len(remainingString) = 0
          THEN /\ sendPc' = "send"
               /\ UNCHANGED <<remainingString, chunkIndex, chunkLimits>>
          ELSE IF Len(remainingString) <= maxChunkSize
          THEN /\ chunkLimits' = Append(chunkLimits, Len(remainingString))
               /\ sendPc' = "send"
               /\ UNCHANGED <<remainingString, chunkIndex>>
          ELSE /\ chunkLimits' = Append(chunkLimits, maxChunkSize)
               /\ remainingString' = SliceFrom(remainingString, maxChunkSize)
               /\ chunkIndex' = chunkIndex + 1
               /\ UNCHANGED sendPc
    /\ UNCHANGED <<sMethod, sInput, transitId, wire, sendLog>>
    /\ UNCHANGED configVars
    /\ UNCHANGED receiverVars
    /\ UNCHANGED connVars
    /\ UNCHANGED callVars
    /\ UNCHANGED dispatchVars
    /\ UNCHANGED httpVars

\* the loop has run MaxIter iterations without reaching its break: the call
\* never returns
CalculateChunkLimitsDiverges ==
    /\ sendPc = "calc"
    /\ chunkIndex >= MaxIter
    /\ sendPc' = "hung"
    /\ UNCHANGED <<sMethod, sInput, transitId, remainingString, chunkIndex,
                   chunkLimits, wire, sendLog>>
    /\ UNCHANGED configVars
    /\ UNCHANGED receiverVars
    /\ UNCHANGED connVars
    /\ UNCHANGED callVars
    /\ UNCHANGED dispatchVars
    /\ UNCHANGED httpVars

\* a for loop that writes every chunk, the last included, with its ordinal
RECURSIVE ChunkFrames_Ordinal(_, _, _, _, _)
ChunkFrames_Ordinal(id, inputString, limits, i, currentIndex) ==
    IF i > Len(limits) THEN <<>>
    ELSE LET chunk == Slice(inputString, currentIndex, currentIndex + limits[i])
         IN <<ChunkFrame(id, i - 1, chunk)>>
            \o ChunkFrames_Ordinal(id, inputString, limits, i + 1,
                                   currentIndex + limits[i])

\* the frames of the for loop of sendChunkedMessage from iteration i on
RECURSIVE ChunkFrames(_, _, _, _, _)
ChunkFrames(id, inputString, limits, i, currentIndex) ==
    IF i > Len(limits) THEN <<>>
    ELSE LET chunk == Slice(inputString, currentIndex, currentIndex + limits[i])
             isLastChunk == i = Len(limits)
             index == IF isLastChunk THEN -1 ELSE i - 1
         IN <<ChunkFrame(id, index, chunk)>>
            \o ChunkFrames(id, inputString, limits, i + 1, currentIndex + limits[i])

\* the for loop of sendChunkedMessage
SendChunks ==
    /\ sendPc = "send"
    /\ wire' = wire \o ChunkFrames(transitId, JsonStringify(sInput), chunkLimits, 1, 0)
    /\ sendPc' = "idle"
    /\ UNCHANGED <<sMethod, sInput, transitId, remainingString, chunkIndex,
                   chunkLimits, sendLog>>
    /\ UNCHANGED configVars
    /\ UNCHANGED receiverVars
    /\ UNCHANGED connVars
    /\ UNCHANGED callVars
    /\ UNCHANGED dispatchVars
    /\ UNCHANGED httpVars

(***************************************************************************)
(* The receiving peer's onmessage: one call of handle() per frame.         *)
(***************************************************************************)
ReceiverState ==
    [storage |-> transitStorage, invoked |-> invoked, outbox |-> outbox,
     threw |-> threw, reassembled |-> reassembled, methods |-> methodCollection]

\* a frame handle() passes to handleTransitChunk and that passes its format test
IsChunkFrame(frame) ==
    /\ frame.kind = "raw"
    /\ JsonParse(frame.text) = ParseError
    /\ Len(Split(frame.text)) >= 3

ChunkId(frame) == Split(frame.text)[1]

ChunkIndexOf(frame) == ParseInt(Split(frame.text)[2])

IsTerminalChunk(frame) ==
    /\ IsChunkFrame(frame)
    /\ ~ChunkIndexOf(frame).nan
    /\ ChunkIndexOf(frame).val = -1

\* the places the engine's sort may leave the chunk stored under "NaN"
NanPlaces ==
    IF \E id \in DOMAIN transitStorage : transitStorage[id].nan # <<>>
    THEN 0..MaxIter
    ELSE {0}

Receive(frame, sock, fail, nanAt) ==
    LET st == handle(ReceiverState, frame, sock, fail, nanAt)
    IN /\ transitStorage' = st.storage
       /\ invoked' = st.invoked
       /\ outbox' = st.outbox
       /\ threw' = st.threw
       /\ reassembled' = st.reassembled
       /\ lastFrame' = [frame |-> frame, socket |-> sock,
                        known |-> IsChunkFrame(frame)
                                  /\ ChunkId(frame) \in DOMAIN transitStorage]
       /\ inFlight' =
            IF frame.kind = "init" /\ frame.method # ""
            THEN inFlight \cup {frame.transit}
            ELSE IF IsTerminalChunk(frame) THEN inFlight \ {ChunkId(frame)}
            ELSE inFlight

senderVars ==
    <<sendPc, sMethod, sInput, transitId, remainingString, chunkIndex, chunkLimits,
      wire, sendLog>>

\* the next frame of socket 1 arrives
Handle(fail, nanAt) ==
    /\ rcvPos < Len(wire)
    /\ Receive(wire[rcvPos + 1], 1, fail, nanAt)
    /\ rcvPos' = rcvPos + 1
    /\ UNCHANGED foreignUsed
    /\ UNCHANGED senderVars
    /\ UNCHANGED configVars
    /\ UNCHANGED connVars
    /\ UNCHANGED callVars
    /\ UNCHANGED dispatchVars
    /\ UNCHANGED httpVars

\* a frame of socket 2 arrives
HandleForeign(fail, nanAt) ==
    /\ foreignUsed < Len(foreign)
    /\ Receive(foreign[foreignUsed + 1], 2, fail, nanAt)
    /\ foreignUsed' = foreignUsed + 1
    /\ UNCHANGED rcvPos
    /\ UNCHANGED senderVars
    /\ UNCHANGED configVars
    /\ UNCHANGED connVars
    /\ UNCHANGED callVars
    /\ UNCHANGED dispatchVars
    /\ UNCHANGED httpVars

NextTransit ==
    \/ \E method \in CallMethods, input \in Inputs, id \in TransitIds :
          SendChunkedMessage(method, input, id)
    \/ CalculateChunkLimitsStep
    \/ CalculateChunkLimitsDiverges
    \/ SendChunks
    \/ \E fail \in Failures, nanAt \in NanPlaces : Handle(fail, nanAt)
    \/ \E fail \in Failures, nanAt \in NanPlaces : HandleForeign(fail, nanAt)

(***************************************************************************)
(* The dispatch model: the receiving peer alone, handed frames of every    *)
(* shape on two sockets, and editFunction.                                 *)
(***************************************************************************)
InitDispatch ==
    /\ deliveries = 0
    /\ editLog = <<>>

\* {"a":1.5} whole, and cut in two for a transfer
SomeObject == JsonStringify(Obj(<<"a">>, Num(FALSE, <<"1">>, <<"5">>)))

\* the frames the remote peers send: whole calls and junk on socket 1, which
\* also sends a terminal chunk under the transit id of socket 2; a chunked
\* transfer on socket 2
DispatchFrames(sock) ==
    IF sock = 1
    THEN
    { WholeFrame("echo", SomeObject),
      WholeFrame("strict", <<"\"", "a", "\"">>),
      WholeFrame("strict", SomeObject),
      WholeFrame("nope", SomeObject),
      WholeFrame("echo", <<"0">>),
      WholeFrame("", SomeObject),
      Raw(<<"n", "u", "l", "l">>),
      Raw(<<"x">>),
      ChunkFrame(ForeignId, -1, SubSeq(SomeObject, 5, Len(SomeObject))) }
    ELSE
    { TransitInit("echo", ForeignId),
      TransitInit("strict", ForeignId),
      ChunkFrame(ForeignId, 0, SubSeq(SomeObject, 1, 4)),
      ChunkFrame(ForeignId, -1, SubSeq(SomeObject, 5, Len(SomeObject))) }

\* onmessage of a wired socket: handle({data: event.data, socket: event.target})
Deliver(frame, sock, fail, nanAt) ==
    /\ deliveries < MaxDeliveries
    /\ Receive(frame, sock, fail, nanAt)
    /\ deliveries' = deliveries + 1
    /\ UNCHANGED <<rcvPos, foreignUsed, editLog>>
    /\ UNCHANGED senderVars
    /\ UNCHANGED configVars
    /\ UNCHANGED connVars
    /\ UNCHANGED callVars
    /\ UNCHANGED httpVars

\* handlers editFunction is called with
NewHandlers == {1}

\* names editFunction is called with: a registered one and an unregistered one
EditNames == {"strict", "nope"}

\* a swap that replaces the whole entry and so loses the schema
SwapHandler_Entry(table, methodName, newHandler) ==
    [table EXCEPT ![methodName] = [handler |-> newHandler, schema |-> FALSE]]

\* this.methodCollection[methodName].handler = newHandler
SwapHandler(table, methodName, newHandler) ==
    [table EXCEPT ![methodName].handler = newHandler]

\* editFunction(methodName, newHandler): throws when the name has no entry
EditFunction(methodName, newHandler) ==
    /\ Len(editLog) < MaxEdits
    /\ IF methodName \in DOMAIN methodCollection
       THEN /\ methodCollection' = SwapHandler(methodCollection, methodName, newHandler)
            /\ editLog' = Append(editLog, [name |-> methodName, handler |-> newHandler,
                                           threw |-> FALSE])
       ELSE /\ UNCHANGED methodCollection
            /\ editLog' = Append(editLog, [name |-> methodName, handler |-> newHandler,
                                           threw |-> TRUE])
    /\ UNCHANGED <<maxMessageLength, safeCeiling, foreign, deliveries>>
    /\ UNCHANGED senderVars
    /\ UNCHANGED receiverVars
    /\ UNCHANGED connVars
    /\ UNCHANGED callVars
    /\ UNCHANGED httpVars

NextDispatch ==
    \/ \E sock \in {1, 2} :
          \E frame \in DispatchFrames(sock), fail \in Failures, nanAt \in NanPlaces :
             Deliver(frame, sock, fail, nanAt)
    \/ \E methodName \in EditNames, newHandler \in NewHandlers :
          EditFunction(methodName, newHandler)

(***************************************************************************)
(* connect(): the sockets the peer creates, their open, error and close    *)
(* events, and the retry timers of attemptConnection.  A socket record     *)
(* holds what the closures installed on it captured: the connect() call    *)
(* (seq) and the attempt number.                                           *)
(***************************************************************************)
\* the id of a socket: the connect() call and the attempt that created it
SocketId(seq, attempt) == [seq |-> seq, attempt |-> attempt]

\* this.socket = null
NoSocket == SocketId(0, 0)

\* a socket whose close event has been handled; the model keeps nothing of it
ClosedSocket ==
    [state |-> "closed", opened |-> FALSE, wired |-> FALSE, hooked |-> FALSE,
     stale |-> FALSE]

\* no close event has been handled since a socket was created or opened
NoClose ==
    [id |-> NoSocket, errored |-> FALSE, errorHook |-> FALSE, closeHook |-> FALSE,
     argument |-> NoSocket]

InitConn ==
    /\ socket = NoSocket
    /\ socks = [id \in {} |-> ClosedSocket]
    /\ timers = {}
    /\ promise = <<>>
    /\ reconnect \in BOOLEAN
    /\ maxReconnectAttempts \in 0..MaxAttempts
    /\ uncaught = FALSE
    /\ superseded = {}
    /\ handshakeFailed = FALSE
    /\ lastClose = NoClose

\* WebSocket.close(): a socket that is connecting or open starts closing
CloseSocket(ss, id) ==
    IF id # NoSocket /\ ss[id].state \in {"connecting", "open"}
    THEN [ss EXCEPT ![id].state = "closing"]
    ELSE ss

NewSocket(stale) ==
    [state |-> "connecting", opened |-> FALSE, wired |-> FALSE, hooked |-> FALSE,
     stale |-> stale]

\* attemptConnection(attempt) of connect() call seq, up to the installation
\* of onopen, onerror and onclose on the new socket
AttemptConnection(seq, attempt, stale) ==
    LET id == SocketId(seq, attempt)
        closed == CloseSocket(socks, socket)
    IN /\ socks' = [k \in DOMAIN socks \cup {id} |->
                      IF k = id THEN NewSocket(stale) ELSE closed[k]]
       /\ socket' = id

\* connect(url, useNativeWebSocket, options)
Connect ==
    /\ Len(promise) < MaxConnects
    /\ promise' = Append(promise, "pending")
    /\ AttemptConnection(Len(promise) + 1, 1, FALSE)
    /\ superseded' = superseded \cup timers
    /\ lastClose' = NoClose
    /\ UNCHANGED <<timers, reconnect, maxReconnectAttempts, uncaught, handshakeFailed>>
    /\ UNCHANGED transitVars
    /\ UNCHANGED callVars
    /\ UNCHANGED dispatchVars
    /\ UNCHANGED httpVars

\* resolve() or reject() of the promise of attemptConnection: the promise of
\* attempt 1 is the one connect() awaits; a settled promise stays as it is
Settle(ps, id, outcome) ==
    IF id.attempt = 1 /\ ps[id.seq] = "pending"
    THEN [ps EXCEPT ![id.seq] = outcome]
    ELSE ps

\* onopen of socket id: setupSocketHandlers(this.socket) wires the socket
\* this.socket names at that moment, and throws when it is null; then the
\* "open" function, if registered, is called with this.socket and its
\* rejection caught, and the promise of the attempt is resolved
SocketOpens(id) ==
    /\ socks[id].state = "connecting"
    /\ IF socket = NoSocket
       THEN /\ socks' = [socks EXCEPT ![id].state = "open", ![id].opened = TRUE]
            /\ uncaught' = TRUE
            /\ UNCHANGED promise
       ELSE /\ socks' = [[socks EXCEPT ![id].state = "open", ![id].opened = TRUE]
                            EXCEPT ![socket].wired = TRUE,
                                   ![socket].hooked =
                                       (@ \/ "open" \in DOMAIN methodCollection)]
            /\ promise' = Settle(promise, id, "resolved")
            /\ UNCHANGED uncaught
    /\ lastClose' = NoClose
    /\ UNCHANGED <<socket, timers, reconnect, maxReconnectAttempts, superseded,
                   handshakeFailed>>
    /\ UNCHANGED transitVars
    /\ UNCHANGED callVars
    /\ UNCHANGED dispatchVars
    /\ UNCHANGED httpVars

\* a test that forgets the option reconnect
ShouldReconnect_Always(attempt) == attempt < maxReconnectAttempts

\* a test that allows one retry more
ShouldReconnect_OneMore(attempt) == reconnect /\ attempt <= maxReconnectAttempts

\* the test of onclose that schedules a retry
ShouldReconnect(attempt) == reconnect /\ attempt < maxReconnectAttempts

\* an onerror that calls the "error" function when there is one
OnErrorCallsHook_Registered(table) == "error" \in DOMAIN table

\* onerror of a socket: it logs and rejects the promise of the attempt; the
\* "error" function is not looked up
OnErrorCallsHook(table) == FALSE

\* an onclose that clears this.socket before it calls the "close" function
CloseHookCall_AfterClear(table, current) ==
    [ran |-> "close" \in DOMAIN table, argument |-> NoSocket]

\* the call of the "close" function in onclose, if one is registered: it is
\* given this.socket as it is when onclose starts, before it is cleared
CloseHookCall(table, current) ==
    [ran |-> "close" \in DOMAIN table, argument |-> current]

\* onclose of socket id, after its onerror if the socket errored
OnClose(id, errored) ==
    /\ lastClose' = [id |-> id, errored |-> errored,
                     errorHook |-> errored /\ OnErrorCallsHook(methodCollection),
                     closeHook |-> CloseHookCall(methodCollection, socket).ran,
                     argument |-> CloseHookCall(methodCollection, socket).argument]
    /\ socks' = [socks EXCEPT ![id] = ClosedSocket]
    /\ socket' = NoSocket
    /\ timers' = IF ShouldReconnect(id.attempt) THEN timers \cup {id} ELSE timers
    /\ handshakeFailed' = (handshakeFailed \/ ~socks[id].opened)

\* the connection of socket id fails or is lost: its error event, then its
\* close event
SocketFails(id) ==
    /\ socks[id].state \in {"connecting", "open"}
    /\ promise' = Settle(promise, id, "rejected")
    /\ OnClose(id, TRUE)
    /\ UNCHANGED <<reconnect, maxReconnectAttempts, uncaught, superseded>>
    /\ UNCHANGED transitVars
    /\ UNCHANGED callVars
    /\ UNCHANGED dispatchVars
    /\ UNCHANGED httpVars

\* the close event of socket id: the remote end closed it, or the peer's
\* close() completes; a socket closed before its handshake ended gets its
\* error event first
SocketCloses(id) ==
    /\ socks[id].state \in {"open", "closing"}
    /\ promise' = IF socks[id].opened THEN promise ELSE Settle(promise, id, "rejected")
    /\ OnClose(id, ~socks[id].opened)
    /\ UNCHANGED <<reconnect, maxReconnectAttempts, uncaught, superseded>>
    /\ UNCHANGED transitVars
    /\ UNCHANGED callVars
    /\ UNCHANGED dispatchVars
    /\ UNCHANGED httpVars

\* the setTimeout callback that onclose of socket t scheduled runs
TimerFires(t) ==
    /\ t \in timers
    /\ timers' = timers \ {t}
    /\ AttemptConnection(t.seq, t.attempt + 1, t \in superseded)
    /\ superseded' = superseded \ {t}
    /\ lastClose' = NoClose
    /\ UNCHANGED <<promise, reconnect, maxReconnectAttempts, uncaught, handshakeFailed>>
    /\ UNCHANGED transitVars
    /\ UNCHANGED callVars
    /\ UNCHANGED dispatchVars
    /\ UNCHANGED httpVars

NextConn ==
    \/ Connect
    \/ \E id \in DOMAIN socks : SocketOpens(id)
    \/ \E id \in DOMAIN socks : SocketFails(id)
    \/ \E id \in DOMAIN socks : SocketCloses(id)
    \/ \E t \in timers : TimerFires(t)

(***************************************************************************)
(* createManager(): calls on this.socket, each waiting for the next        *)
(* "message" event of that socket, and the remote peer answering them.     *)
(***************************************************************************)
InitCall ==
    /\ calls = <<>>
    /\ listeners = [id \in {} |-> <<>>]
    /\ inboundLog = <<>>

Pending == [status |-> "pending", value |-> Null]

NotConnected == Str(<<"N", "o", "t", " ", "c", "o", "n", "n", "e", "c", "t", "e", "d">>)

ListenersOf(id) == IF id \in DOMAIN listeners THEN listeners[id] ELSE <<>>

AddListener(id, call) ==
    [k \in DOMAIN listeners \cup {id} |->
        IF k = id THEN Append(ListenersOf(id), call) ELSE listeners[k]]

\* socket.send(data) of a socket that is not open throws (InvalidStateError)
CanSend(id) == socks[id].state = "open"

\* a method of the object createManager returns, called with input while
\* chunking is not needed: it throws when this.socket is null, and otherwise
\* adds its listener and calls sendChunkedMessage, which sends the frame
\* {method, input}; nothing awaits or catches the promise of
\* sendChunkedMessage, which rejects when send throws
Call(method, input) ==
    /\ Len(calls) < MaxCalls
    /\ NoChunkingNeeded(JsonStringify(input))
    /\ LET call == Len(calls) + 1
           made == [method |-> method, input |-> input,
                    sent |-> socket # NoSocket /\ CanSend(socket),
                    issuedAt |-> Len(inboundLog), on |-> socket]
       IN IF socket = NoSocket
          THEN /\ calls' = Append(calls,
                      made @@ [status |-> "rejected", value |-> NotConnected])
               /\ UNCHANGED <<listeners, wire, uncaught>>
          ELSE /\ calls' = Append(calls, made @@ Pending)
               /\ listeners' = AddListener(socket, call)
               /\ IF CanSend(socket)
                  THEN /\ wire' = Append(wire, WholeFrame(method, JsonStringify(input)))
                       /\ UNCHANGED uncaught
                  ELSE /\ uncaught' = TRUE
                       /\ UNCHANGED wire
    /\ UNCHANGED <<sendPc, sMethod, sInput, transitId, remainingString, chunkIndex,
                   chunkLimits, sendLog, inboundLog>>
    /\ UNCHANGED configVars
    /\ UNCHANGED receiverVars
    /\ UNCHANGED <<socket, socks, timers, promise, reconnect, maxReconnectAttempts,
                   superseded, handshakeFailed, lastClose>>
    /\ UNCHANGED dispatchVars
    /\ UNCHANGED httpVars

\* the SyntaxError of JSON.parse, as a rejection reason
SyntaxError == Str(<<"S", "y", "n", "t", "a", "x", "E", "r", "r", "o", "r">>)

\* what the remote peer sends back for a call: sendResponse of the input,
\* sendError, or text that is no JSON
Replies == {"data", "error", "junk"}

ReplyFrame(reply, input) ==
    CASE reply = "data" -> ResponseFrame(JsonStringify(input))
      [] reply = "error" -> ErrorFrame(<<"f", "a", "i", "l">>)
      [] reply = "junk" -> Raw(<<"x">>)
      [] reply = "request" -> WholeFrame("echo", JsonStringify(input))
      [] reply = "init" -> TransitInit("echo", ForeignId)
      [] reply = "chunk" -> ChunkFrame(ForeignId, 0, JsonStringify(input))

\* a dispatch that reaches the newest listener only
EventTargets_NewestOnly(ls) == IF ls = <<>> THEN <<>> ELSE <<ls[Len(ls)]>>

\* the listeners a "message" event of a socket is dispatched to: every
\* listener added to it and not removed, in the order they were added
EventTargets(ls) == ls

\* messageHandler: JSON.parse(event.data), then reject with response.error
\* or resolve with response.data; a settled promise stays as it is
Outcome(frame) ==
    IF frame.kind = "raw" /\ JsonParse(frame.text) = ParseError
    THEN [status |-> "rejected", value |-> SyntaxError]
    ELSE IF frame.kind = "error"
    THEN [status |-> "rejected", value |-> Str(frame.error)]
    \* {method, input} and {method, transit} have neither error nor data
    ELSE IF frame.kind \in {"whole", "init"}
    THEN [status |-> "resolved", value |-> Undefined]
    ELSE [status |-> "resolved", value |-> JsonParse(frame.data)]

RECURSIVE RunListeners(_, _, _)
RunListeners(cs, targets, frame) ==
    IF Len(targets) = 0 THEN cs
    ELSE LET c == targets[1]
             settled == IF cs[c].status = "pending"
                        THEN [cs EXCEPT ![c].status = Outcome(frame).status,
                                        ![c].value = Outcome(frame).value]
                        ELSE cs
         IN RunListeners(settled, Tail(targets), frame)

\* the remote peer answers call c and the frame arrives on the socket of the
\* call: every listener of that socket runs, and removes itself from
\* this.socket, which throws when this.socket is null
Respond(c, reply) ==
    /\ c \in 1..Len(calls)
    /\ calls[c].sent
    /\ \A i \in 1..Len(inboundLog) : inboundLog[i].answers # c
    /\ socks[calls[c].on].state = "open"
    /\ LET id == calls[c].on
           frame == ReplyFrame(reply, calls[c].input)
           targets == EventTargets(ListenersOf(id))
       IN /\ inboundLog' = Append(inboundLog, [answers |-> c, frame |-> frame])
          /\ calls' = RunListeners(calls, targets, frame)
          /\ IF socket = NoSocket
             THEN /\ uncaught' = (uncaught \/ targets # <<>>)
                  /\ UNCHANGED listeners
             ELSE /\ listeners' =
                        [k \in DOMAIN listeners |->
                            IF k = socket
                            THEN SelectSeq(listeners[k],
                                   LAMBDA l : \A i \in 1..Len(targets) : targets[i] # l)
                            ELSE listeners[k]]
                  /\ UNCHANGED uncaught
    /\ UNCHANGED <<socket, socks, timers, promise, reconnect, maxReconnectAttempts,
                   superseded, handshakeFailed, lastClose>>
    /\ UNCHANGED transitVars
    /\ UNCHANGED dispatchVars
    /\ UNCHANGED httpVars

NextCall ==
    \/ \E method \in CallMethods, input \in Inputs : Call(method, input)
    \/ \E c \in 1..MaxCalls, reply \in Replies : Respond(c, reply)
    \* what the remote peer sends of its own accord while a call is pending:
    \* a call {method, input} of its own, or the transit-init or a chunk of one
    \/ \E c \in 1..MaxCalls, frame \in {"request", "init", "chunk"} : Respond(c, frame)

\* the manager model calls "echo" with {} only
NextManager ==
    \/ NextConn
    \/ Call("echo", EmptyObj)
    \/ \E c \in 1..MaxCalls, reply \in Replies : Respond(c, reply)

(***************************************************************************)
(* Specifications.                                                         *)
(***************************************************************************)
(***************************************************************************)
(* The HTTP pair: VCONNServer.handleRequest and the functions getClient()  *)
(* returns.  A request body is a text (Raw) or the text JSON.stringify     *)
(* makes of {action, input}; a response body is a text or the text of      *)
(* {error, data}.  Neither the server nor the client keeps state between   *)
(* calls: the model records the last call of each.                         *)
(***************************************************************************)
Truthy(v) == v # Undefined /\ ~Falsy(v)

\* the keys of the server's actionCollection
ActionNames == {<<"g", "o">>}

RequestBody(action, input) == [kind |-> "request", action |-> action, input |-> input]

ResponseBody(error, data) == [kind |-> "json", error |-> error, data |-> data]

\* what a member of a parsed one-member object, or of another value, reads as
Member(v, key) == IF v.t = "obj" /\ v.k = key THEN v.v ELSE Undefined

\* await request.json(): a SyntaxError, null, or the members action and input
RequestJson(body) ==
    IF body.kind = "request"
    THEN [t |-> "members", action |-> Str(body.action), input |-> body.input]
    ELSE LET v == JsonParse(body.text)
         IN IF v = ParseError \/ v = Null THEN v
            ELSE [t |-> "members",
                  action |-> Member(v, <<"a", "c", "t", "i", "o", "n">>),
                  input |-> Member(v, <<"i", "n", "p", "u", "t">>)]

\* a Response made by jsonResponseMaker or Response.json
JsonResponse(status, error, data) ==
    [threw |-> FALSE, status |-> status, body |-> ResponseBody(error, data)]

\* the promise of handleRequest rejects
Rejects == [threw |-> TRUE, status |-> 0, body |-> Raw(<<>>)]

InvalidJson == Str(<<"I", "n", "v", "a", "l", "i", "d", " ", "J", "S", "O", "N">>)

ActionNotFound ==
    Str(<<"A", "c", "t", "i", "o", "n", " ", "n", "o", "t", " ", "f", "o", "u", "n", "d">>)

InvalidInput == Str(<<"I", "n", "v", "a", "l", "i", "d", " ", "i", "n", "p", "u", "t">>)

\* handleRequest(request) for a request with that body; handlerThrows: the
\* action handler throws or rejects with an Error.  The handler of the model
\* returns its input.
handleRequest(body, handlerThrows) ==
    LET jsonData == RequestJson(body)
    IN IF jsonData = ParseError THEN JsonResponse(400, InvalidJson, Undefined)
       ELSE IF jsonData = Null THEN Rejects
       ELSE IF ~(jsonData.action.t = "str" /\ jsonData.action.s \in ActionNames)
       THEN JsonResponse(404, ActionNotFound, Undefined)
       ELSE IF ~SchemaParses(jsonData.input)
       THEN JsonResponse(400, InvalidInput, Undefined)
       ELSE IF handlerThrows THEN Rejects
       ELSE JsonResponse(200, Undefined, jsonData.input)

NoRequest == [handled |-> FALSE, body |-> Raw(<<>>), handlerThrows |-> FALSE,
              response |-> Rejects]

NoCall == [called |-> FALSE, version |-> "", fetched |-> Rejects,
           rejected |-> FALSE, value |-> Undefined]

InitHttp ==
    /\ served = NoRequest
    /\ returned = NoCall

\* the request bodies of the model: no JSON, null, {} and {"input":1.5}
\* without action, an action that is not registered, and the action go with
\* an input its schema rejects and with inputs it accepts
RequestBodies ==
    { Raw(<<"x">>),
      Raw(<<"n", "u", "l", "l">>),
      Raw(<<"{", "}">>),
      Raw(<<"{", "\"", "i", "n", "p", "u", "t", "\"", ":", "1", ".", "5", "}">>),
      Raw(<<"{", "\"", "a", "c", "t", "i", "o", "n", "\"", ":", "\"", "g", "o", "\"", "}">>),
      RequestBody(<<"n", "o">>, EmptyObj),
      RequestBody(<<"g", "o">>, Str(<<"a">>)),
      RequestBody(<<"g", "o">>, EmptyObj),
      RequestBody(<<"g", "o">>, ForeignObject) }

\* one request reaches the server
HandleRequest(body, handlerThrows) ==
    /\ served' = [handled |-> TRUE, body |-> body, handlerThrows |-> handlerThrows,
                  response |-> handleRequest(body, handlerThrows)]
    /\ UNCHANGED returned
    /\ UNCHANGED <<transitVars, connVars, callVars, dispatchVars>>

\* await response.json(): a SyntaxError, null, or the members error and data
ResponseJson(body) ==
    IF body.kind = "json"
    THEN [t |-> "members", error |-> body.error, data |-> body.data]
    ELSE LET v == JsonParse(body.text)
         IN IF v = ParseError \/ v = Null THEN v
            ELSE [t |-> "members",
                  error |-> Member(v, <<"e", "r", "r", "o", "r">>),
                  data |-> Member(v, <<"d", "a", "t", "a">>)]

\* the two sources of getClient(): client.ts, and part_002, which tests
\* json.data before json.error
ClientVersions == {"actions", "actionTypes"}

Returns(value) == [rejected |-> FALSE, value |-> value]

\* client[key](input) given what fetch did: fetched.threw when its promise
\* rejected (the network failed), else the response
ClientFunction(version, fetched) ==
    IF fetched.threw THEN [rejected |-> TRUE, value |-> Undefined]
    ELSE LET json == ResponseJson(fetched.body)
         IN IF json = ParseError \/ json = Null THEN Returns(Null)
            ELSE IF version = "actionTypes" /\ ~Truthy(json.data) THEN Returns(Null)
            ELSE IF Truthy(json.error) THEN Returns(Null)
            ELSE Returns(json.data)

\* what fetch may do with the request of client[key](input): fail, bring the
\* server's response, or bring the response of something between the two
Fetched(key, input, handlerThrows) ==
    LET response == handleRequest(RequestBody(key, input), handlerThrows)
    IN { Rejects,
         [threw |-> FALSE, status |-> 502, body |-> Raw(<<"x">>)],
         [threw |-> FALSE, status |-> 200, body |-> Raw(<<"n", "u", "l", "l">>)],
         [threw |-> FALSE, status |-> 200, body |-> Raw(<<"{", "}">>)],
         JsonResponse(200, Undefined, Num(FALSE, <<"0">>, <<>>)),
         JsonResponse(500, Undefined, ForeignObject) }
       \cup (IF response.threw THEN {} ELSE {response})

\* the keys of the client: the names of the actions it was constructed with
ClientKeys == {<<"g", "o">>, <<"n", "o">>}

ClientInputs == {EmptyObj, Str(<<"a">>), ForeignObject}

\* one call of a function of the client
ClientCall(version, fetched) ==
    /\ returned' = [called |-> TRUE, version |-> version, fetched |-> fetched]
                      @@ ClientFunction(version, fetched)
    /\ UNCHANGED served
    /\ UNCHANGED <<transitVars, connVars, callVars, dispatchVars>>

NextHttp ==
    \/ \E body \in RequestBodies, handlerThrows \in BOOLEAN :
          HandleRequest(body, handlerThrows)
    \/ \E version \in ClientVersions, key \in ClientKeys, input \in ClientInputs,
          handlerThrows \in BOOLEAN :
          \E fetched \in Fetched(key, input, handlerThrows) :
             ClientCall(version, fetched)

vars == <<transitVars, connVars, callVars, dispatchVars, httpVars>>

Init ==
    /\ InitTransit
    /\ InitConn
    /\ ~reconnect
    /\ maxReconnectAttempts = 0
    /\ InitCall
    /\ InitDispatch
    /\ InitHttp

\* the transit model: one call of the sending peer, the receiving peer
Spec == Init /\ [][NextTransit]_vars

InitConnected ==
    /\ InitTransit
    /\ maxMessageLength = -1
    /\ safeCeiling = 0
    /\ foreign = CHOOSE script \in ForeignScripts : TRUE
    /\ InitConn
    /\ InitCall
    /\ InitDispatch
    /\ InitHttp

\* the connection model: connect() calls, socket events and retry timers
SpecConn == InitConnected /\ [][NextConn]_vars

InitReceiver ==
    /\ InitTransit
    /\ maxMessageLength = -1
    /\ safeCeiling = 0
    /\ foreign = CHOOSE script \in ForeignScripts : TRUE
    /\ InitConn
    /\ ~reconnect
    /\ maxReconnectAttempts = 0
    /\ InitCall
    /\ InitDispatch
    /\ InitHttp

\* the receiving peer with a script for the second socket
InitScripted(scripts) ==
    /\ maxMessageLength = -1
    /\ safeCeiling = 0
    /\ sendPc = "idle"
    /\ sMethod = ""
    /\ sInput = NoInput
    /\ transitId = <<>>
    /\ remainingString = <<>>
    /\ chunkIndex = 0
    /\ chunkLimits = <<>>
    /\ wire = <<>>
    /\ rcvPos = 0
    /\ foreign \in scripts
    /\ methodCollection = InitialMethods
    /\ foreignUsed = 0
    /\ transitStorage = EmptyStorage
    /\ invoked = <<>>
    /\ outbox = <<>>
    /\ threw = FALSE
    /\ reassembled = <<>>
    /\ lastFrame = NoFrame
    /\ sendLog = <<>>
    /\ inFlight = {}
    /\ InitConn
    /\ ~reconnect
    /\ maxReconnectAttempts = 0
    /\ InitCall
    /\ InitDispatch
    /\ InitHttp

\* the receiving peer handed one call as a whole frame and as a transfer
InitPaths == InitScripted(PathScripts)

\* the receiving peer handed one scripted transfer on the second socket
InitReassembly ==
    /\ maxMessageLength = -1
    /\ safeCeiling = 0
    /\ sendPc = "idle"
    /\ sMethod = ""
    /\ sInput = NoInput
    /\ transitId = <<>>
    /\ remainingString = <<>>
    /\ chunkIndex = 0
    /\ chunkLimits = <<>>
    /\ wire = <<>>
    /\ rcvPos = 0
    /\ foreign \in ReassemblyScripts
    /\ methodCollection = InitialMethods
    /\ foreignUsed = 0
    /\ transitStorage = EmptyStorage
    /\ invoked = <<>>
    /\ outbox = <<>>
    /\ threw = FALSE
    /\ reassembled = <<>>
    /\ lastFrame = NoFrame
    /\ sendLog = <<>>
    /\ inFlight = {}
    /\ InitConn
    /\ ~reconnect
    /\ maxReconnectAttempts = 0
    /\ InitCall
    /\ InitDispatch
    /\ InitHttp

NextReassembly ==
    \E fail \in Failures, nanAt \in NanPlaces : HandleForeign(fail, nanAt)

\* the path model: the same call on the whole-message and the transit path
SpecPaths == InitPaths /\ [][NextReassembly]_vars

\* the reassembly model: the chunks of one transfer in any order of arrival
SpecReassembly == InitReassembly /\ [][NextReassembly]_vars

\* the HTTP model: requests to handleRequest and calls of the client
SpecHttp == InitReceiver /\ [][NextHttp]_vars

\* the dispatch model: the receiving peer, any frames, editFunction
SpecDispatch == InitReceiver /\ [][NextDispatch]_vars

\* a peer whose connect() calls ask for two attempts
InitManager ==
    /\ InitTransit
    /\ maxMessageLength = -1
    /\ safeCeiling = 0
    /\ foreign = CHOOSE script \in ForeignScripts : TRUE
    /\ InitConn
    /\ reconnect
    /\ maxReconnectAttempts = 2
    /\ InitCall
    /\ InitDispatch
    /\ InitHttp

\* the manager model: connect(), socket events and timers, and calls through
\* createManager with the remote's answers
SpecManager == InitManager /\ [][NextManager]_vars

\* the peer after connect() resolved: socket 1 of call 1 is open and wired
InitOpen ==
    /\ InitTransit
    /\ maxMessageLength = -1
    /\ safeCeiling = 0
    /\ foreign = CHOOSE script \in ForeignScripts : TRUE
    /\ socket = SocketId(1, 1)
    /\ socks = [id \in {SocketId(1, 1)} |->
                  [state |-> "open", opened |-> TRUE, wired |-> TRUE, hooked |-> TRUE,
                   stale |-> FALSE]]
    /\ timers = {}
    /\ promise = <<"resolved">>
    /\ reconnect = FALSE
    /\ maxReconnectAttempts = 0
    /\ uncaught = FALSE
    /\ superseded = {}
    /\ handshakeFailed = FALSE
    /\ lastClose = NoClose
    /\ InitCall
    /\ InitDispatch
    /\ InitHttp

\* the receiving peer after its connect() resolved, and a remote sending peer
InitLifetime ==
    /\ InitTransit
    /\ safeCeiling = 0
    /\ foreign = CHOOSE script \in ForeignScripts : TRUE
    /\ socket = SocketId(1, 1)
    /\ socks = [id \in {SocketId(1, 1)} |->
                  [state |-> "open", opened |-> TRUE, wired |-> TRUE, hooked |-> TRUE,
                   stale |-> FALSE]]
    /\ timers = {}
    /\ promise = <<"resolved">>
    /\ reconnect = FALSE
    /\ maxReconnectAttempts = 0
    /\ uncaught = FALSE
    /\ superseded = {}
    /\ handshakeFailed = FALSE
    /\ lastClose = NoClose
    /\ InitCall
    /\ InitDispatch
    /\ InitHttp

\* onmessage of the connected socket: the next frame of the remote peer
\* arrives while the socket is open
HandleInbound(fail, nanAt) ==
    /\ socket # NoSocket
    /\ socks[socket].state = "open"
    /\ Handle(fail, nanAt)

NextLifetime ==
    \/ \E method \in CallMethods, input \in Inputs, id \in TransitIds :
          SendChunkedMessage(method, input, id)
    \/ CalculateChunkLimitsStep
    \/ CalculateChunkLimitsDiverges
    \/ SendChunks
    \/ \E fail \in Failures, nanAt \in NanPlaces : HandleInbound(fail, nanAt)
    \/ \E id \in DOMAIN socks : SocketCloses(id)

\* the lifetime model: a transfer to a connected peer whose socket may close
\* at any moment
SpecLifetime == InitLifetime /\ [][NextLifetime]_vars

\* the caller model: calls through createManager and the remote's answers
SpecCall == InitOpen /\ [][NextCall]_vars

(***************************************************************************)
(* Properties of the transit model.                                        *)
(***************************************************************************)
\* the call of the sending peer was chunked
Chunked == Len(sendLog) = 1 /\ sendLog[1].chunked

\* every frame of socket 1 has been sent and handled
AllDelivered == sendPc = "idle" /\ rcvPos = Len(wire)

\* invocations of method handlers (not of the error hook) for socket 1
OwnInvocations ==
    LET own == SelectSeq(invoked, LAMBDA c : c.socket = 1 /\ ~c.hook)
    IN [i \in 1..Len(own) |-> Invocation(own[i].method, own[i].input, own[i].socket)]

OwnReassembled == SelectSeq(reassembled, LAMBDA r : r.id = transitId)

\* the chunked call reached the receiving peer as it was made
RoundTripDelivered ==
    (Chunked /\ AllDelivered) =>
        /\ OwnReassembled = <<[id |-> transitId, text |-> JsonStringify(sInput)]>>
        /\ (SchemaAccepts(sMethod, sInput)
              => OwnInvocations = <<Invocation(sMethod, sInput, 1)>>)

\* C1: round trip. Whenever sendChunkedMessage chunks a payload (any input,
\* any maxMessageLength >= 1), the call emits its frames, and feeding them in
\* send order to handle() reassembles exactly JSON.stringify(input) and
\* invokes the named handler exactly once with the original input.
C1_RoundTrip == (Chunked => sendPc # "hung") /\ RoundTripDelivered

\* the chunk frames of socket 1
WireChunks == SelectSeq(wire, LAMBDA f : f.kind = "raw")

\* C2: frame bound. Every chunk frame sent, the terminal "-1" frame included,
\* is at most maxMessageLength characters long, for every safeCeiling >= 0.
C2_FrameBound ==
    \A i \in 1..Len(WireChunks) : Len(WireChunks[i].text) <= maxMessageLength

\* C3: no chunking when unnecessary. If maxMessageLength is -1 or the
\* serialized input is no longer than maxMessageLength, the call sends
\* exactly one frame, the object {method, input}, and no transit frame.
C3_NoChunkingWhenUnnecessary ==
    \A k \in 1..Len(sendLog) :
        LET inputString == JsonStringify(sendLog[k].input)
        IN (maxMessageLength = -1 \/ Len(inputString) <= maxMessageLength)
              => /\ wire = <<WholeFrame(sendLog[k].method, inputString)>>
                 /\ sendPc = "idle"

\* a call whose input exactly fits was sent as one frame
C3_Witness ==
    /\ Len(sendLog) = 1
    /\ maxMessageLength = Len(JsonStringify(sendLog[1].input))
    /\ Len(wire) = 1
    /\ wire[1].kind = "whole"

\* C4: memory bound. After a terminal chunk (index -1) is handled its transit
\* id has no buffer, whatever became of the reassembly and the dispatch; so
\* every buffer held belongs to a transfer whose terminal chunk is still to
\* come, and storage is empty once every transfer has had its terminal chunk.
C4_MemoryBound ==
    /\ IsTerminalChunk(lastFrame.frame)
          => ChunkId(lastFrame.frame) \notin DOMAIN transitStorage
    /\ DOMAIN transitStorage \subseteq inFlight
    /\ (inFlight = {} => transitStorage = EmptyStorage)

\* a terminal chunk of a known transit whose text was no JSON has been handled
C4_Witness ==
    /\ IsTerminalChunk(lastFrame.frame)
    /\ lastFrame.known
    /\ Len(reassembled) > 0
    /\ JsonParse(reassembled[Len(reassembled)].text) = ParseError
    /\ transitStorage = EmptyStorage

\* a call of handle() has just been made
Handled == rcvPos' # rcvPos \/ foreignUsed' # foreignUsed

\* C9: a chunk frame whose transit id has no buffer is dropped: handle()
\* returns normally, transit storage is unchanged, no handler is invoked and
\* no frame is sent.
C9_UnknownTransitDropped ==
    [][(/\ Handled
        /\ IsChunkFrame(lastFrame'.frame)
        /\ ChunkId(lastFrame'.frame) \notin DOMAIN transitStorage)
          => /\ transitStorage' = transitStorage
             /\ invoked' = invoked
             /\ outbox' = outbox
             /\ threw' = threw /\ ~threw']_vars

\* a chunk frame of a transit without buffer has been handled while another
\* transfer was in flight
C9_Witness ==
    /\ IsChunkFrame(lastFrame.frame)
    /\ ~lastFrame.known
    /\ transitStorage # EmptyStorage

(***************************************************************************)
(* Properties of the connection model.                                     *)
(***************************************************************************)
\* sockets that are connecting or open and that the peer has not closed
LiveSockets == {id \in DOMAIN socks : socks[id].state \in {"connecting", "open"}}

\* no timer is pending and every socket created has had its close event
Quiescent ==
    /\ timers = {}
    /\ \A id \in DOMAIN socks : socks[id].state = "closed"

\* one connect() call with reconnect enabled, whose sockets all opened
ScenarioC ==
    /\ Len(promise) = 1
    /\ reconnect
    /\ maxReconnectAttempts >= 1
    /\ ~handshakeFailed

\* C5: with reconnect enabled and maxReconnectAttempts = N >= 1, if every
\* socket opens and then closes, one connect() call creates exactly N sockets
\* in total, after which none is created, and nothing is thrown or rejected.
C5_ScenarioC ==
    ScenarioC =>
        /\ Cardinality(DOMAIN socks) <= maxReconnectAttempts
        /\ ~uncaught
        /\ promise[1] # "rejected"
        /\ (Quiescent => Cardinality(DOMAIN socks) = maxReconnectAttempts)

\* three sockets have opened and closed under maxReconnectAttempts = 3
C5_Witness ==
    /\ ScenarioC
    /\ maxReconnectAttempts = 3
    /\ Quiescent
    /\ DOMAIN socks = {SocketId(1, 1), SocketId(1, 2), SocketId(1, 3)}

\* C6: a retry timer that is pending when a new connect() is issued never
\* fires an attempt: no socket is created by it.
C6_SupersededTimerNeverFires == \A id \in DOMAIN socks : ~socks[id].stale

\* C7: at most one socket created by the peer is live at a time.
C7_SingleSocket == Cardinality(LiveSockets) <= 1

\* C8: when the first attempt of a connect() call fails before opening (error,
\* then close), the connect() promise rejects and no retry is scheduled.
C8_HandshakeFailureNoRetry ==
    [][\A id \in DOMAIN socks :
          (/\ id.attempt = 1
           /\ socks[id].state = "connecting"
           /\ socks'[id].state = "closed")
             => /\ promise'[id.seq] = "rejected"
                /\ id \notin timers']_vars

(***************************************************************************)
(* Properties of the caller model.                                         *)
(***************************************************************************)
\* calls c1 and c2 were issued back to back on one socket, c1 first, and the
\* first frame to arrive after them answers c2
ReverseOrder(c1, c2) ==
    /\ c1 < c2
    /\ calls[c1].sent /\ calls[c2].sent
    /\ calls[c1].on = calls[c2].on
    /\ calls[c1].issuedAt = calls[c2].issuedAt
    /\ Len(inboundLog) > calls[c1].issuedAt
    /\ inboundLog[calls[c1].issuedAt + 1].answers = c2

\* C10: when two calls are issued back to back on one connection and the
\* responses arrive in reverse issue order, the first caller's promise settles
\* with the second call's payload.
C10_ScenarioE ==
    \A c1, c2 \in 1..Len(calls) :
        ReverseOrder(c1, c2) =>
            LET frame == inboundLog[calls[c1].issuedAt + 1].frame
            IN /\ calls[c1].status = Outcome(frame).status
               /\ calls[c1].value = Outcome(frame).value

\* the first call has resolved with the input of the second, which differs
\* from its own
C10_Witness ==
    /\ Len(calls) = 2
    /\ ReverseOrder(1, 2)
    /\ calls[1].input # calls[2].input
    /\ calls[1].status = "resolved"
    /\ calls[1].value = calls[2].input

(***************************************************************************)
(* Properties of the dispatch model.                                       *)
(***************************************************************************)
\* a call of handle() has just been made by the dispatch model
Dispatched == deliveries' # deliveries

\* the handlers the call of handle() just made has invoked, in order
NewInvocations == SubSeq(invoked', Len(invoked) + 1, Len(invoked'))

\* the frames the handlers logged in log sent: a handler called as a method
\* whose promise resolved sent sendResponse(socket, input), the others none
RECURSIVE HandlerFrames(_)
HandlerFrames(log) ==
    IF Len(log) = 0 THEN <<>>
    ELSE (IF ~log[1].hook /\ ~log[1].rejected
          THEN <<[socket |-> log[1].socket,
                  frame |-> ResponseFrame(JsonStringify(log[1].input))]>>
          ELSE <<>>) \o HandlerFrames(Tail(log))

\* C11: on every path of handle() the dispatcher itself sends nothing: the
\* frames sent during dispatch are exactly those the invoked handlers sent.
C11_NoAutomaticResponse == outbox = HandlerFrames(invoked)

\* a frame for an unknown method has just been dropped, after a handler
\* failure that invoked the hook, and nothing has been sent
C11_Witness ==
    /\ deliveries >= 2
    /\ lastFrame.frame = WholeFrame("nope", SomeObject)
    /\ Len(invoked) = 2
    /\ invoked[2].hook
    /\ outbox = <<>>

\* C12: for every inbound frame handle() returns normally and never throws
\* to its caller.
C12_HandleNeverThrows == ~threw

C14_FailureHook ==
    [][(Dispatched /\ NewInvocations # <<>>) =>
         LET first == NewInvocations[1]
         IN /\ ~first.hook
            /\ threw' = threw
            /\ IF first.rejected
               THEN /\ Len(NewInvocations) = 2
                    /\ NewInvocations[2].hook
                    /\ NewInvocations[2].method = "error"
                    /\ NewInvocations[2].input = ErrorHookInput
                    /\ NewInvocations[2].socket = first.socket
               ELSE Len(NewInvocations) = 1]_vars

\* the hook has been invoked for a failed handler and has failed itself
C14_Witness ==
    /\ Len(invoked) >= 2
    /\ invoked[Len(invoked) - 1].rejected
    /\ invoked[Len(invoked)].hook
    /\ invoked[Len(invoked)].rejected
    /\ ~threw

\* the handler editFunction has left under a name: that of the last call for
\* the name that did not throw, or the constructor's
RECURSIVE HandlerAfter(_, _)
HandlerAfter(log, name) ==
    IF Len(log) = 0 THEN FirstHandler
    ELSE IF log[Len(log)].name = name /\ ~log[Len(log)].threw
    THEN log[Len(log)].handler
    ELSE HandlerAfter(SubSeq(log, 1, Len(log) - 1), name)

\* the method table is the constructor's but for the handlers swapped, and
\* the calls of editFunction that threw are those for unregistered names
TableAsEdited ==
    /\ DOMAIN methodCollection = Registered
    /\ \A name \in Registered :
          /\ methodCollection[name].schema = (name \in HasSchema)
          /\ methodCollection[name].handler = HandlerAfter(editLog, name)
    /\ \A i \in 1..Len(editLog) : editLog[i].threw = (editLog[i].name \notin Registered)

\* C16: after editFunction(name, h) on a registered name every later dispatch
\* of that method invokes h, the schema and the other entries unchanged;
\* editFunction on an unregistered name throws and changes nothing.
C16_RuntimeHandlerSwap ==
    [][/\ TableAsEdited'
       /\ Dispatched =>
            \A i \in 1..Len(NewInvocations) :
               NewInvocations[i].handler =
                  HandlerAfter(editLog, NewInvocations[i].method)]_vars

\* "strict" has been dispatched to the handler editFunction gave it
C16_Witness ==
    /\ Len(editLog) >= 1
    /\ editLog[1] = [name |-> "strict", handler |-> 1, threw |-> FALSE]
    /\ Len(invoked) >= 1
    /\ invoked[Len(invoked)].method = "strict"
    /\ invoked[Len(invoked)].handler = 1

\* C17: a transit-init frame whose id already has a buffer is dropped: the
\* buffer's method name and stored chunks are left unchanged.
C17_TransitIdCollision ==
    [][(/\ Dispatched
        /\ lastFrame'.frame.kind = "init"
        /\ lastFrame'.frame.transit \in DOMAIN transitStorage)
          => transitStorage' = transitStorage]_vars

(***************************************************************************)
(* Properties of the connection model and of the manager model.            *)
(***************************************************************************)
\* a call through the manager has just been made
Called == Len(calls') = Len(calls) + 1

\* connect() has completed and the socket it left in this.socket is open
Connected == socket # NoSocket /\ socks[socket].state = "open"

\* C15: whenever the peer is not connected (connect() has not completed, or
\* the socket has closed) a call through the manager fails with "Not
\* connected", sends no frame and registers no message listener.
C15_ManagerRequiresConnection ==
    [][(Called /\ ~Connected)
          => /\ calls'[Len(calls')].status = "rejected"
             /\ calls'[Len(calls')].value = NotConnected
             /\ wire' = wire
             /\ listeners' = listeners]_vars

\* the sockets connect() call seq has created
SocketsOf(seq) == {id \in DOMAIN socks : id.seq = seq}

AttemptCap == IF maxReconnectAttempts > 1 THEN maxReconnectAttempts ELSE 1

\* C18: with reconnect enabled, the sockets one connect() call creates never
\* number more than max(1, maxReconnectAttempts), however the open, error and
\* close events interleave and whether or not reconnections succeed.
C18_AttemptCap ==
    reconnect =>
        \A seq \in 1..Len(promise) : Cardinality(SocketsOf(seq)) <= AttemptCap

\* the third and last socket of a connect() call is open, after a failed
\* handshake among the earlier ones
C18_Witness ==
    /\ reconnect
    /\ maxReconnectAttempts = 3
    /\ Len(promise) = 1
    /\ handshakeFailed
    /\ Cardinality(SocketsOf(1)) = 3
    /\ socks[SocketId(1, 3)].state = "open"

\* C19: on every socket open, initial or reconnection, the message wiring of
\* that socket is installed and the "open" function is called once; nothing
\* is thrown, and the promise of an initial attempt resolves.
C19_OpenHook ==
    [][\A id \in DOMAIN socks :
          (socks[id].state = "connecting" /\ socks'[id].state = "open")
             => /\ socks'[id].wired
                /\ socks'[id].hooked
                /\ uncaught' = uncaught
                /\ id.attempt = 1 => promise'[id.seq] = "resolved"]_vars

\* a message has just arrived for the listeners of the manager
Answered == Len(inboundLog') = Len(inboundLog) + 1

\* C20: when the next message arrives a pending call resolves with its data,
\* or rejects with its error or for its unparsable text, a settled call stays
\* as it was, and after the message no listener of a settled call remains on
\* the socket it was registered on.
C20_CallSettlement ==
    [][Answered =>
         LET arrival == inboundLog'[Len(inboundLog')]
             id == calls[arrival.answers].on
         IN /\ \A c \in 1..Len(calls) :
                  calls'[c] =
                     IF calls[c].status = "pending"
                        /\ \E i \in 1..Len(ListenersOf(id)) : ListenersOf(id)[i] = c
                     THEN [calls[c] EXCEPT !.status = Outcome(arrival.frame).status,
                                           !.value = Outcome(arrival.frame).value]
                     ELSE calls[c]
            /\ \A k \in DOMAIN listeners' : \A i \in 1..Len(listeners'[k]) :
                  calls'[listeners'[k][i]].status = "pending"
            /\ uncaught' = uncaught]_vars

\* C21: when connect() is called with reconnect false or omitted, no retry
\* is ever scheduled after a close or error event, and the connect() call
\* creates exactly one socket.
C21_ReconnectOffByDefault ==
    ~reconnect =>
        /\ timers = {}
        /\ \A seq \in 1..Len(promise) : SocketsOf(seq) = {SocketId(seq, 1)}

\* without reconnect a socket has failed its handshake and another has opened
\* and closed, with attempts to spare
C21_Witness ==
    /\ ~reconnect
    /\ maxReconnectAttempts >= 2
    /\ Len(promise) = 2
    /\ handshakeFailed
    /\ socks[SocketId(1, 1)].state = "closed"
    /\ socks[SocketId(2, 1)].state = "closed"
    /\ promise[2] = "resolved"

\* C24: safety margin. Whenever sendChunkedMessage chunks a payload, every
\* chunk frame, the terminal frame written with index -1 included, is at most
\* maxMessageLength - safeCeiling characters long.
C24_SafetyMargin ==
    \A i \in 1..Len(WireChunks) :
        Len(WireChunks[i].text) <= maxMessageLength - safeCeiling

\* C25: encode terminates. For every input, every maxMessageLength >= 1, every
\* safeCeiling >= 0 and every transit id, calculateChunkLimits terminates, also
\* when maxMessageLength - overhead - safeCeiling is zero or negative.
C25_EncodeTerminates == sendPc # "hung"

\* the data part of a chunk frame: what follows the second separator
ChunkDataOf(frame) ==
    LET parts == Split(frame.text) IN Join(SubSeq(parts, 3, Len(parts)))

RECURSIVE SentData(_)
SentData(frames) ==
    IF Len(frames) = 0 THEN <<>>
    ELSE ChunkDataOf(frames[1]) \o SentData(Tail(frames))

\* C26: a chunked send emits exactly one transit-init frame first, then the
\* non-terminal chunks with indices 0, 1, 2, ... in increasing order, then
\* exactly one frame with index -1 as the last frame; nothing of the transfer
\* follows the -1 frame, and the chunk data concatenated in send order is the
\* serialized input.
C26_ChunkedSendOrder ==
    Chunked =>
        /\ Len(wire) >= 1
        /\ wire[1] = TransitInit(sMethod, transitId)
        /\ \A i \in 2..Len(wire) :
              /\ wire[i].kind = "raw"
              /\ Len(Split(wire[i].text)) >= 3
              /\ ChunkId(wire[i]) = transitId
              /\ ~ChunkIndexOf(wire[i]).nan
              /\ ChunkIndexOf(wire[i]).val = IF i = Len(wire) THEN -1 ELSE i - 2
        /\ sendPc = "idle" =>
              /\ Len(wire) >= 2
              /\ SentData(SubSeq(wire, 2, Len(wire))) = JsonStringify(sInput)

\* a send of at least three chunks of a payload that holds separators has
\* finished
C26_Witness ==
    /\ Chunked
    /\ sendPc = "idle"
    /\ Len(wire) >= 4
    /\ sInput = Str(<<"a", ".", "-", "1", ".", "b">>)

\* C29: if the string reassembled at the terminal chunk is not valid JSON, no
\* method handler and no error hook is invoked and no frame is sent, and the
\* buffer is gone: a later chunk carrying the same transit id finds no
\* transit and is dropped.
C29_ReassemblyFailure ==
    [][/\ (/\ Handled
           /\ IsTerminalChunk(lastFrame'.frame)
           /\ lastFrame'.known
           /\ JsonParse(reassembled'[Len(reassembled')].text) = ParseError)
             => /\ invoked' = invoked
                /\ outbox' = outbox
                /\ ~threw'
                /\ ChunkId(lastFrame'.frame) \notin DOMAIN transitStorage'
       /\ (/\ Handled
           /\ IsChunkFrame(lastFrame'.frame)
           /\ ChunkId(lastFrame'.frame) \notin inFlight
           /\ \E i \in 1..Len(reassembled) :
                 /\ reassembled[i].id = ChunkId(lastFrame'.frame)
                 /\ JsonParse(reassembled[i].text) = ParseError)
             => /\ ~lastFrame'.known
                /\ transitStorage' = transitStorage
                /\ invoked' = invoked
                /\ outbox' = outbox
                /\ reassembled' = reassembled
                /\ ~threw']_vars

\* the reassembly of the second socket's transfer has failed and a later
\* chunk of the same transit has been handled
C29_Witness ==
    /\ foreignUsed = 4
    /\ lastFrame.frame = ChunkFrame(ForeignId, 1, <<"1">>)
    /\ ~lastFrame.known
    /\ \E i \in 1..Len(reassembled) :
          /\ reassembled[i].id = ForeignId
          /\ JsonParse(reassembled[i].text) = ParseError
    /\ \A i \in 1..Len(invoked) : invoked[i].socket = 1

\* the transit a frame addresses
Addressed(frame) ==
    IF frame.kind = "init" THEN {frame.transit}
    ELSE IF IsChunkFrame(frame) THEN {ChunkId(frame)}
    ELSE {}

ForeignInvocations ==
    LET other == SelectSeq(invoked, LAMBDA c : c.socket = 2 /\ ~c.hook)
    IN [i \in 1..Len(other) |-> Invocation(other[i].method, other[i].input, other[i].socket)]

\* C30: two transfers with distinct transit ids whose frames arrive
\* interleaved (each transfer's frames in send order) do not interfere: a
\* frame of one transfer never changes the other's buffer, and each transfer
\* is delivered to its own method with exactly its own payload.
C30_TransferIsolation ==
    [][/\ Handled =>
            \A id \in DOMAIN transitStorage \ Addressed(lastFrame'.frame) :
               /\ id \in DOMAIN transitStorage'
               /\ transitStorage'[id] = transitStorage[id]
       /\ (foreign = ForeignTransfer /\ foreignUsed' = Len(foreign)) =>
            /\ SelectSeq(reassembled', LAMBDA r : r.id = ForeignId)
                 = <<[id |-> ForeignId, text |-> JsonStringify(ForeignObject)]>>
            /\ ForeignInvocations' = <<Invocation("strict", ForeignObject, 2)>>
       /\ RoundTripDelivered']_vars

\* the first socket's chunked transfer has just been delivered to its method
\* while the second socket's transfer is in flight with a chunk buffered
C30_Witness ==
    /\ foreign = ForeignTransfer
    /\ foreignUsed = 2
    /\ Chunked
    /\ AllDelivered
    /\ lastFrame.socket = 1
    /\ IsTerminalChunk(lastFrame.frame)
    /\ ForeignId \in DOMAIN transitStorage
    /\ 0 \in DOMAIN transitStorage[ForeignId].chunks
    /\ OwnInvocations = <<Invocation(sMethod, sInput, 1)>>
    /\ Len(wire) >= 3

(***************************************************************************)
(* Properties of the reassembly model.                                     *)
(***************************************************************************)
\* the chunks with indices lo..hi other than -1, in ascending order of index
RECURSIVE AscendingFrom(_, _, _)
AscendingFrom(chunks, lo, hi) ==
    IF lo > hi THEN <<>>
    ELSE (IF lo \in DOMAIN chunks /\ lo # -1 THEN chunks[lo] ELSE <<>>)
            \o AscendingFrom(chunks, lo + 1, hi)

\* C27: when the terminal chunk arrives the reassembled string is the stored
\* non-terminal chunks in ascending numeric order of index (10 after 2),
\* whatever the order of their arrival, followed by the terminal chunk's
\* data; a chunk stored without numeric index has some place among them.
C27_ReassemblyOrder ==
    [][(/\ Handled
        /\ IsTerminalChunk(lastFrame'.frame)
        /\ lastFrame'.known)
          => LET buffer == transitStorage[ChunkId(lastFrame'.frame)]
                 text == reassembled'[Len(reassembled')].text
                 indices == DOMAIN buffer.chunks \ {-1}
                 lo == IF indices = {} THEN 0
                       ELSE CHOOSE x \in indices : \A y \in indices : x <= y
                 hi == IF indices = {} THEN -1
                       ELSE CHOOSE x \in indices : \A y \in indices : x >= y
                 unnumbered == IF buffer.nan = <<>> THEN <<>> ELSE buffer.nan[1]
             IN /\ Len(reassembled') = Len(reassembled) + 1
                /\ \E k \in lo..(hi + 1) :
                      text = AscendingFrom(buffer.chunks, lo, k - 1)
                               \o unnumbered
                               \o AscendingFrom(buffer.chunks, k, hi)
                               \o ChunkDataOf(lastFrame'.frame)]_vars

\* chunk 10 arrived first and chunk 2 before chunks 0 and 1, and the transfer
\* has been reassembled to {"a":1.5} and delivered
C27_Witness ==
    /\ foreign \in PermutedScripts
    /\ foreign[2] = ReassemblyChunks[4]
    /\ foreign[3] = ReassemblyChunks[3]
    /\ foreignUsed = Len(foreign)
    /\ reassembled = <<[id |-> ForeignId, text |-> JsonStringify(ForeignObject)]>>
    /\ Len(invoked) >= 1
    /\ invoked[1].input = ForeignObject

\* a frame that is no JSON and has fewer than two separators or an index
\* field parseInt makes no number of
Malformed(frame) ==
    /\ frame.kind = "raw"
    /\ JsonParse(frame.text) = ParseError
    /\ (Len(Split(frame.text)) < 3 \/ ChunkIndexOf(frame).nan)

\* C28: a malformed chunk frame is dropped: no buffer changes, and its data
\* is in no reassembled payload.
C28_MalformedChunkDropped ==
    [][/\ (Handled /\ Malformed(lastFrame'.frame))
             => /\ transitStorage' = transitStorage
                /\ reassembled' = reassembled
                /\ invoked' = invoked
       /\ foreign = MalformedScript
             => \A i \in 1..Len(reassembled') :
                   reassembled'[i].text = <<"1", "5">>]_vars

(***************************************************************************)
(* Properties of the HTTP model.                                           *)
(***************************************************************************)
\* the documented error cases of the server: the body is no JSON, names no
\* action or an action that is not registered, carries an input the schema
\* rejects, or the handler throws
ErrorCase(body, handlerThrows) ==
    LET jsonData == RequestJson(body)
    IN \/ jsonData = ParseError
       \/ jsonData = Null
       \/ /\ jsonData.t = "members"
          /\ \/ ~(jsonData.action.t = "str" /\ jsonData.action.s \in ActionNames)
             \/ ~SchemaParses(jsonData.input)
             \/ handlerThrows

\* C22: for every request handleRequest returns a Response and never throws
\* or rejects; in each documented error case (invalid JSON body, missing
\* action, non-existent action, schema validation failure, runtime error of
\* the handler) the Response is an error Response.
C22_ServerErrorCases ==
    served.handled =>
        /\ ~served.response.threw
        /\ ErrorCase(served.body, served.handlerThrows) =>
              /\ served.response.status >= 400
              /\ Truthy(served.response.body.error)

\* the documented failures of a call of the client: the fetch fails, the
\* response is not a 200, its body is no JSON, or it carries an error
FetchFailure(fetched) ==
    \/ fetched.threw
    \/ fetched.status # 200
    \/ ResponseJson(fetched.body) = ParseError
    \/ /\ ResponseJson(fetched.body).t = "members"
       /\ Truthy(ResponseJson(fetched.body).error)

\* C23: a function of getClient() never rejects; it returns null on every
\* documented failure (network error of the fetch, non-200 response, JSON
\* parsing error, response carrying an error) and the response's data
\* otherwise.
C23_ClientErrorCases ==
    returned.called =>
        /\ ~returned.rejected
        /\ returned.value =
              IF FetchFailure(returned.fetched) THEN Null
              ELSE IF ResponseJson(returned.fetched.body) = Null THEN Null
              ELSE ResponseJson(returned.fetched.body).data

\* the length of the text socket.send is given for a frame: the chunk text,
\* JSON.stringify({method, input}) or JSON.stringify({method, transit})
FrameLength(frame) ==
    IF frame.kind = "raw" THEN Len(frame.text)
    ELSE IF frame.kind = "whole"
    THEN Len("{\"method\":\"") + Len(frame.method) + Len("\",\"input\":")
            + Len(frame.input) + Len("}")
    ELSE Len("{\"method\":\"") + Len(frame.method) + Len("\",\"transit\":\"")
            + Len(frame.transit) + Len("\"}")

\* C40: when maxMessageLength is not -1, every frame a call passes to
\* socket.send (the whole frame {method, input}, the transit-init frame and
\* the chunk frames) is at most maxMessageLength characters long.
C40_EveryFrameWithinLimit ==
    maxMessageLength # -1 =>
        \A i \in 1..Len(wire) :
            wire[i].kind \in {"whole", "init"} =>
                FrameLength(wire[i]) <= maxMessageLength

(***************************************************************************)
(* Properties of the path model.                                           *)
(***************************************************************************)
\* C31: for every method name and every JSON input, falsy ones included,
\* the whole frame {method, input} and a transit-init plus chunks of the same
\* call have the same dispatch outcome: the same handler invoked with the
\* same input, or the same drop.
C31_PathEquivalence ==
    (foreign \in PathScripts /\ foreignUsed = Len(foreign)) =>
        \/ ForeignInvocations = <<>>
        \/ /\ Len(ForeignInvocations) = 2
           /\ ForeignInvocations[1] = ForeignInvocations[2]

\* C38: the handlers registered as "open", "close" and "error" run only on
\* lifecycle events and failures: an inbound frame that names one of them as
\* its method never makes the dispatcher call it as a method.
C38_HooksOnlyOnLifecycle ==
    \A i \in 1..Len(invoked) :
        ~invoked[i].hook => invoked[i].method \notin {"open", "close", "error"}

(***************************************************************************)
(* Properties of the caller model.                                         *)
(***************************************************************************)
\* the calls the message that has just arrived settled
NewlySettled ==
    {c \in 1..Len(calls) : calls[c].status = "pending" /\ calls'[c].status # "pending"}

\* C32: a pending call is settled only by an inbound response frame ({data}
\* or {error}); a request frame {method, input}, a transit-init frame or a
\* chunk frame the remote peer sends while the call is pending does not
\* settle it.
C32_OnlyResponsesSettle ==
    [][(Answered /\ inboundLog'[Len(inboundLog')].frame.kind \notin {"data", "error"})
          => NewlySettled = {}]_vars

\* C36: each inbound message settles at most one pending call: with several
\* calls outstanding on one socket the first message settles one of them and
\* the others stay pending.
C36_OneShotConsumption ==
    [][Answered => Cardinality(NewlySettled) <= 1]_vars

(***************************************************************************)
(* Properties of the dispatch model: sockets.                              *)
(***************************************************************************)
\* C39: a peer that handles frames of several sockets adds chunks to a
\* transit buffer only when they arrive on the socket that sent its
\* transit-init, and invokes the handler of a completed transfer with that
\* socket: frames of another socket cannot alter, complete or overwrite the
\* transfer.  In the dispatch model every transit-init comes from socket 2.
C39_PerSocketTransit ==
    [][Dispatched =>
         /\ lastFrame'.socket = 1 => transitStorage' = transitStorage
         /\ Len(reassembled') > Len(reassembled) =>
               \A i \in 1..Len(NewInvocations) : NewInvocations[i].socket = 2]_vars

(***************************************************************************)
(* Properties of the lifetime model.                                       *)
(***************************************************************************)
\* C35: no transit buffer persists indefinitely: every buffer a transit-init
\* frame created is removed, also when the sender's connection closes before
\* the terminal chunk is delivered.  No frame arrives after the close, so
\* once the connection has closed no buffer is left.
C35_NoBufferPersists ==
    (\A id \in DOMAIN socks : socks[id].state = "closed") =>
        transitStorage = EmptyStorage

(***************************************************************************)
(* Properties of the connection model: the close and error handlers.       *)
(***************************************************************************)
\* the close event of socket id has just been handled
Closes(id) == socks[id].state # "closed" /\ socks'[id].state = "closed"

\* C33 as stated: on each close event the socket handle is cleared before the
\* "close" function is invoked, so that the function never observes the peer
\* as still connected.
C33_HookAfterDisconnect == lastClose.closeHook => lastClose.argument = NoSocket

\* C33 as the code has it: on each close event the peer first invokes the
\* "close" function once, if registered, with its socket handle as it is at
\* that moment, then clears the handle, and only then, if reconnect is
\* enabled and attempts remain, schedules one retry.
C33_CloseOrdering ==
    [][\A id \in DOMAIN socks :
          Closes(id) =>
             /\ lastClose'.id = id
             /\ lastClose'.closeHook = ("close" \in DOMAIN methodCollection)
             /\ lastClose'.argument = socket
             /\ socket' = NoSocket
             /\ timers' \ timers =
                   IF reconnect /\ id.attempt < maxReconnectAttempts THEN {id} ELSE {}
             /\ timers \subseteq timers']_vars

\* the open socket of the peer has closed: the "close" function was given
\* that socket, the handle is cleared and a retry is scheduled
C33_Witness ==
    /\ lastClose.id = SocketId(1, 1)
    /\ lastClose.closeHook
    /\ lastClose.argument = SocketId(1, 1)
    /\ ~lastClose.errored
    /\ socket = NoSocket
    /\ timers = {SocketId(1, 1)}

C37_StaleCloseHarmless ==
    [][\A id \in DOMAIN socks :
          (Closes(id) /\ socket # NoSocket /\ socket # id) =>
             /\ socket' = socket
             /\ lastClose'.argument # socket
             /\ timers' = timers]_vars

====
